---- MODULE Spec2Model ----
(***************************************************************************)
(* CTAP-HID packet processing of softauth.                                 *)
(*                                                                         *)
(* A u32 channel identifier is kept at full width as the pair <<hi, lo>>   *)
(* of its 16-bit halves, because 0xFFFFFFFF does not fit in the integers   *)
(* the model checker computes with.  Bytes are integers 0..255.            *)
(***************************************************************************)
EXTENDS Integers, Sequences, FiniteSets, TLC

VARIABLES
    chan_alloc,   \* PacketProcessing.chan_alloc.used : set of u32
    state,        \* PacketProcessing.state : Idle | Busy {chan, decoder}
    pc,           \* where the caller of handle_packet stands
    pkt,          \* the packet given to the last handle_packet call
    result,       \* what that call returned
    pre_state,    \* PacketProcessing.state when that call began
    pre_alloc,    \* PacketProcessing.chan_alloc.used when that call began
    asm,          \* a ChannelParseState driven on its own (SpecAssembly)
    asm_in,       \* the stream it has been fed, and how it answered
    alloc_call,   \* the last call made on the ChannelAllocator from outside
    conv,         \* a ServerError and the Message it was converted into
    codec,        \* a message, its encoding, and a MessageDecoder fed with it
    svc,          \* CTAP2Service: the mutex around its state, and the call futures
    srv,          \* CTAPServer: its loop, its transport, the queues of the service
    cbor,         \* a value tree ordered by make_ordered, a keyed record encoded and decoded
    mux           \* a MessageDecoder fed the packets of several channels

vars == <<chan_alloc, state, pc, pkt, result, pre_state, pre_alloc, asm, asm_in,
          alloc_call, conv, codec, svc, srv, cbor, mux>>

\* what the steps of the packet processor, of the assembly, of the allocator
\* calls and of the conversions leave alone
beside_processing == <<asm, asm_in, alloc_call, conv, codec, svc, srv, cbor, mux>>
beside_assembly ==
    <<chan_alloc, state, pc, pkt, result, pre_state, pre_alloc, alloc_call, conv, codec,
      svc, srv, cbor, mux>>
beside_allocator ==
    <<state, pkt, result, pre_state, asm, asm_in, conv, codec, svc, srv, cbor,
      mux>>
beside_conversion ==
    <<chan_alloc, state, pkt, result, pre_state, pre_alloc, asm, asm_in, alloc_call, codec,
      svc, srv, cbor, mux>>
beside_codec ==
    <<chan_alloc, state, pc, pkt, result, pre_state, pre_alloc, asm, asm_in, alloc_call,
      conv, svc, srv, cbor, mux>>
beside_server == <<pc, asm, asm_in, alloc_call, conv, codec, svc, cbor, mux>>
beside_cbor ==
    <<chan_alloc, state, pc, pkt, result, pre_state, pre_alloc, asm, asm_in, alloc_call,
      conv, codec, svc, srv, mux>>
processor == <<chan_alloc, state, pkt, result, pre_state, pre_alloc>>
beside_service ==
    <<chan_alloc, state, pc, pkt, result, pre_state, pre_alloc, asm, asm_in, alloc_call,
      conv, codec, srv, cbor, mux>>
beside_mux ==
    <<chan_alloc, state, pc, pkt, result, pre_state, pre_alloc, asm, asm_in, alloc_call,
      conv, codec, svc, srv, cbor>>

----------------------------------------------------------------------------
(* Bounds of the model *)

\* how many channels may be allocated before broadcast INIT is no longer fed
MaxChannels == 2

\* the end of the id range of the allocator that is run until it is exhausted
\* (SpecAllocatorRange), in place of BROADCAST_CHANNEL
RangeEnd == 5

\* how many futures are made by CTAP2Service::call
NumCallers == 3

\* how many reports the transport delivers to the server loop
MaxReports == 4

\* how many entries a map given to make_ordered has at most
MaxEntries == 3

\* how many values a field of a keyed record is drawn from
NumFieldValues == 4

\* how many data patterns a packet's data field is drawn from
NumSeeds == 2

\* how many packets of several channels a MessageDecoder is fed
MaxInterleaved == 4

----------------------------------------------------------------------------
(* u32 values *)

U32(n) == <<n \div 65536, n % 65536>>

U32Lt(a, b) == a[1] < b[1] \/ (a[1] = b[1] /\ a[2] < b[2])

\* zerocopy U32<BigEndian>::as_bytes
U32BigEndian(c) == <<c[1] \div 256, c[1] % 256, c[2] \div 256, c[2] % 256>>

BROADCAST_CHANNEL == <<65535, 65535>>
RESERVED_CHANNEL == <<0, 0>>

----------------------------------------------------------------------------
(* packet.rs: sizes *)

HID_REPORT_SIZE == 64
INIT_PACKET_PAYLOAD_SIZE == HID_REPORT_SIZE - 7
CONT_PACKET_PAYLOAD_SIZE == HID_REPORT_SIZE - 5
MAX_SEQ_NUM == 127
MAX_MESSAGE_PAYLOAD_SIZE ==
    INIT_PACKET_PAYLOAD_SIZE + CONT_PACKET_PAYLOAD_SIZE * (MAX_SEQ_NUM + 1)

Min(a, b) == IF a < b THEN a ELSE b

\* &slice[..n]
Take(s, n) == SubSeq(s, 1, n)

----------------------------------------------------------------------------
(* command.rs: CommandType, ErrorCode *)

CMD_MSG == 3
CMD_CBOR == 16
CMD_INIT == 6
CMD_PING == 1
CMD_CANCEL == 17
CMD_ERROR == 63
CMD_KEEPALIVE == 59
CMD_WINK == 8
CMD_LOCK == 4

CommandType ==
    {CMD_MSG, CMD_CBOR, CMD_INIT, CMD_PING, CMD_CANCEL, CMD_ERROR, CMD_KEEPALIVE,
     CMD_WINK, CMD_LOCK}

CTAPHID_VENDOR_FIRST == 64
CTAPHID_VENDOR_LAST == 127

\* Result<CommandType, InvalidCommandType>
OkCommand(c) == [tag |-> "Ok", byte |-> c]
UnsupportedVendor(b) == [tag |-> "UnsupportedVendor", byte |-> b]
InvalidCommandByte(b) == [tag |-> "InvalidCommand", byte |-> b]
NoCommand == [tag |-> "None", byte |-> 0]

from_packet_command_identifier(command_identifier) ==
    LET c == command_identifier % 128
    IN  IF c >= CTAPHID_VENDOR_FIRST /\ c <= CTAPHID_VENDOR_LAST
        THEN UnsupportedVendor(c)
        ELSE IF c \in CommandType THEN OkCommand(c) ELSE InvalidCommandByte(c)

ERR_INVALID_CMD == 1
ERR_INVALID_PAR == 2
ERR_INVALID_LEN == 3
ERR_INVALID_SEQ == 4
ERR_MSG_TIMEOUT == 5
ERR_CHANNEL_BUSY == 6
ERR_LOCK_REQUIRED == 10
ERR_INVALID_CHANNEL == 11
ERR_OTHER == 127

\* packet.rs: Message
Message(chan, command, payload) ==
    [channel_identifier |-> chan, command |-> command, payload |-> payload]

NoMessage == Message(RESERVED_CHANNEL, NoCommand, <<>>)

to_message_vendor(code, channel_identifier) ==
    Message(channel_identifier, UnsupportedVendor(CMD_ERROR), <<code>>)

\* ErrorCode::to_message
to_message(code, channel_identifier) ==
    Message(channel_identifier, OkCommand(CMD_ERROR), <<code>>)

ctaphid_version == 2
CAPABILITY_WINK == 1
CAPABILITY_CBOR == 4
CAPABILITY_NMSG == 8

InitCommandResponse_wrong(nonce, channel_id) ==
    nonce \o U32BigEndian(channel_id)
          \o <<ctaphid_version, 0, 0, 0, CAPABILITY_CBOR + CAPABILITY_NMSG + CAPABILITY_WINK>>

\* InitCommandResponse::new(..).as_bytes(); CAPABILITY_CBOR | CAPABILITY_NMSG
\* is the sum of two distinct bits
InitCommandResponse_new(nonce, channel_id) ==
    nonce \o U32BigEndian(channel_id)
          \o <<ctaphid_version, 0, 0, 0, CAPABILITY_CBOR + CAPABILITY_NMSG>>

----------------------------------------------------------------------------
(* errors: packet.rs MessageDecodeError, server.rs ServerError *)

ServerErr(kind, chan, expected, gotten, busy_chan, invalid_len, reason) ==
    [kind |-> kind, chan |-> chan, expected |-> expected, gotten |-> gotten,
     busy_chan |-> busy_chan, invalid_len |-> invalid_len, reason |-> reason]

NoError == ServerErr("None", RESERVED_CHANNEL, 0, 0, RESERVED_CHANNEL, 0, NoCommand)

UnexpectedSeq(expected, gotten, chan) ==
    ServerErr("UnexpectedSeq", chan, expected, gotten, RESERVED_CHANNEL, 0, NoCommand)
UnexpectedCont(chan) ==
    ServerErr("UnexpectedCont", chan, 0, 0, RESERVED_CHANNEL, 0, NoCommand)
InvalidPayloadLength(chan, invalid_len) ==
    ServerErr("InvalidPayloadLength", chan, 0, 0, RESERVED_CHANNEL, invalid_len, NoCommand)
InvalidCommand(chan, reason) ==
    ServerErr("InvalidCommand", chan, 0, 0, RESERVED_CHANNEL, 0, reason)
ChannelBusy(busy_chan, new_chan) ==
    ServerErr("ChannelBusy", new_chan, 0, 0, busy_chan, 0, NoCommand)
InvalidChannel(chan) ==
    ServerErr("InvalidChannel", chan, 0, 0, RESERVED_CHANNEL, 0, NoCommand)
OtherError(chan) ==
    ServerErr("Other", chan, 0, 0, RESERVED_CHANNEL, 0, NoCommand)

UnexpectedInit(expected_seq, chan) ==
    ServerErr("UnexpectedInit", chan, expected_seq, 0, RESERVED_CHANNEL, 0, NoCommand)
InvalidParameter(chan) ==
    ServerErr("InvalidParameter", chan, 0, 0, RESERVED_CHANNEL, 0, NoCommand)
\* MessageDecodeError::IoError carries no channel
IoError == ServerErr("IoError", RESERVED_CHANNEL, 0, 0, RESERVED_CHANNEL, 0, NoCommand)

\* MessageDecodeError::get_channel
get_channel(err) == IF err.kind = "IoError" THEN BROADCAST_CHANNEL ELSE err.chan

DecodeErrorCode_cont_as_seq(err) ==
    CASE err.kind = "UnexpectedSeq" -> ERR_INVALID_SEQ
      [] err.kind = "UnexpectedInit" -> ERR_OTHER
      [] err.kind = "UnexpectedCont" -> ERR_INVALID_SEQ
      [] err.kind = "InvalidPayloadLength" -> ERR_INVALID_LEN
      [] err.kind = "InvalidCommand" -> ERR_INVALID_CMD
      [] err.kind = "InvalidParameter" -> ERR_INVALID_PAR
      [] OTHER -> ERR_OTHER

\* impl From<MessageDecodeError> for ErrorCode; the last arm is IoError
DecodeErrorCode(err) ==
    CASE err.kind = "UnexpectedSeq" -> ERR_INVALID_SEQ
      [] err.kind = "UnexpectedInit" -> ERR_OTHER
      [] err.kind = "UnexpectedCont" -> ERR_OTHER
      [] err.kind = "InvalidPayloadLength" -> ERR_INVALID_LEN
      [] err.kind = "InvalidCommand" -> ERR_INVALID_CMD
      [] err.kind = "InvalidParameter" -> ERR_INVALID_PAR
      [] OTHER -> ERR_OTHER

\* impl From<MessageDecodeError> for Message
DecodeErrorMessage(err) == to_message(DecodeErrorCode(err), get_channel(err))

ServerErrorMessage_busy_chan(err) ==
    CASE err.kind = "ChannelBusy" -> to_message(ERR_CHANNEL_BUSY, err.busy_chan)
      [] err.kind = "InvalidChannel" -> to_message(ERR_INVALID_CHANNEL, err.chan)
      [] err.kind = "Other" -> to_message(ERR_OTHER, err.chan)
      [] OTHER -> DecodeErrorMessage(err)

\* impl From<ServerError> for Message; ChannelBusy answers on new_chan, which
\* ChannelBusy(busy_chan, new_chan) keeps in the chan field
ServerErrorMessage(err) ==
    CASE err.kind = "ChannelBusy" -> to_message(ERR_CHANNEL_BUSY, err.chan)
      [] err.kind = "InvalidChannel" -> to_message(ERR_INVALID_CHANNEL, err.chan)
      [] err.kind = "Other" -> to_message(ERR_OTHER, err.chan)
      [] OTHER -> DecodeErrorMessage(err)

----------------------------------------------------------------------------
(* channel.rs: ChannelAllocator *)

is_allocated(used, chan) == chan \in used

insertable_from_zero(used, end) ==
    {i \in 0..(Cardinality(used) + 1) : U32(i) \notin used /\ U32Lt(U32(i), end)}

\* the i of the range 1..end (end excluded) that used.insert(i) accepts; the
\* lowest of them, when there is one, is at most |used| + 1
insertable(used, end) ==
    {i \in 1..(Cardinality(used) + 1) : U32(i) \notin used /\ U32Lt(U32(i), end)}

\* the loop of allocate takes the lowest i of 1..BROADCAST_CHANNEL that
\* used.insert(i) accepts
allocate_candidates(used) == insertable(used, BROADCAST_CHANNEL)

allocate_unmarked(used) ==
    LET cands == allocate_candidates(used)
    IN  IF cands = {}
        THEN [some |-> FALSE, chan |-> RESERVED_CHANNEL, used |-> used]
        ELSE LET i == CHOOSE x \in cands : \A y \in cands : x <= y
             IN  [some |-> TRUE, chan |-> U32(i), used |-> used]

allocate_in_highest(used, end) ==
    LET cands == insertable(used, end)
    IN  IF cands = {}
        THEN [some |-> FALSE, chan |-> RESERVED_CHANNEL, used |-> used]
        ELSE LET i == CHOOSE x \in cands : \A y \in cands : x >= y
             IN  [some |-> TRUE, chan |-> U32(i), used |-> used \cup {U32(i)}]

\* the body of allocate with the end of its range as a parameter: Some(i) for
\* the first i of 1..end that used.insert(i) accepts, None when there is none
allocate_in(used, end) ==
    LET cands == insertable(used, end)
    IN  IF cands = {}
        THEN [some |-> FALSE, chan |-> RESERVED_CHANNEL, used |-> used]
        ELSE LET i == CHOOSE x \in cands : \A y \in cands : x <= y
             IN  [some |-> TRUE, chan |-> U32(i), used |-> used \cup {U32(i)}]

\* ChannelAllocator::allocate: Option<u32> and the set afterwards
allocate(used) == allocate_in(used, BROADCAST_CHANNEL)

\* ChannelAllocator::free
free(used, chan) == used \ {chan}

----------------------------------------------------------------------------
(* packet.rs: Packet, ChannelParseState *)

\* Packet::InitializationPacket; command_identifier has its high bit set
InitializationPacket(chan, command_identifier, payload_length, data) ==
    [kind |-> "Init", channel_identifier |-> chan,
     command_identifier |-> command_identifier, payload_length |-> payload_length,
     packet_sequence |-> 0, data |-> data]

\* Packet::ContinuationPacket; packet_sequence has its high bit clear
ContinuationPacket(chan, packet_sequence, data) ==
    [kind |-> "Cont", channel_identifier |-> chan, command_identifier |-> 0,
     payload_length |-> 0, packet_sequence |-> packet_sequence, data |-> data]

NoPacket ==
    [kind |-> "None", channel_identifier |-> RESERVED_CHANNEL, command_identifier |-> 0,
     payload_length |-> 0, packet_sequence |-> 0, data |-> <<>>]

\* InitializationPacket::get_command_type
get_command_type(init) == from_packet_command_identifier(init.command_identifier)

\* struct ChannelParseState; wip_message is an Option<Message>
ParseState(wip_some, wip_message, chan, remaining, next_seq) ==
    [wip_some |-> wip_some, wip_message |-> wip_message, channel_identifier |-> chan,
     remaining_payload_length |-> remaining, next_seq_num |-> next_seq]

NoDecoder == ParseState(FALSE, NoMessage, RESERVED_CHANNEL, 0, 0)

ChannelParseState_new_any_length(init) ==
    LET channel_identifier == init.channel_identifier
        command == from_packet_command_identifier(init.command_identifier)
        total_payload_length == init.payload_length
        bytes_to_take == Min(Len(init.data), total_payload_length)
        payload == Take(init.data, bytes_to_take)
    IN  [ok |-> TRUE,
         decoder |-> ParseState(TRUE,
                                Message(channel_identifier, command, payload),
                                channel_identifier,
                                total_payload_length - bytes_to_take, 0),
         err |-> NoError]

\* ChannelParseState::new: Result<Self, MessageDecodeError>
ChannelParseState_new(init) ==
    LET channel_identifier == init.channel_identifier
        command == from_packet_command_identifier(init.command_identifier)
        total_payload_length == init.payload_length
        bytes_to_take == Min(Len(init.data), total_payload_length)
        payload == Take(init.data, bytes_to_take)
    IN  IF init.payload_length > MAX_MESSAGE_PAYLOAD_SIZE
        THEN [ok |-> FALSE, decoder |-> NoDecoder,
              err |-> InvalidPayloadLength(channel_identifier, init.payload_length)]
        ELSE [ok |-> TRUE,
              decoder |-> ParseState(TRUE,
                                     Message(channel_identifier, command, payload),
                                     channel_identifier,
                                     total_payload_length - bytes_to_take, 0),
              err |-> NoError]

\* ChannelParseState::is_finished
is_finished(decoder) == decoder.remaining_payload_length = 0

\* ChannelParseState::try_finish: Option<Message> and the state afterwards
\* (Option::take leaves None behind)
try_finish(decoder) ==
    IF ~is_finished(decoder)
    THEN [some |-> FALSE, message |-> NoMessage, decoder |-> decoder]
    ELSE [some |-> decoder.wip_some, message |-> decoder.wip_message,
          decoder |-> [decoder EXCEPT !.wip_some = FALSE, !.wip_message = NoMessage]]

add_continuation_packet_whole_field(decoder, cont) ==
    IF is_finished(decoder) \/ ~decoder.wip_some
    THEN [ok |-> FALSE, decoder |-> decoder,
          err |-> UnexpectedCont(decoder.channel_identifier)]
    ELSE IF cont.packet_sequence # decoder.next_seq_num
    THEN [ok |-> FALSE, decoder |-> decoder,
          err |-> UnexpectedSeq(decoder.next_seq_num, cont.packet_sequence,
                                decoder.channel_identifier)]
    ELSE LET bytes_to_take == Min(decoder.remaining_payload_length, Len(cont.data))
         IN  [ok |-> TRUE,
              decoder |-> [decoder EXCEPT
                  !.wip_message.payload = @ \o cont.data,
                  !.remaining_payload_length = @ - bytes_to_take,
                  !.next_seq_num = @ + 1],
              err |-> NoError]

\* ChannelParseState::add_continuation_packet: Result<(), MessageDecodeError>
\* and the state afterwards.  A continuation packet's sequence byte has its high
\* bit clear, so the branch packet_sequence > MAX_SEQ_NUM is never taken.
add_continuation_packet(decoder, cont) ==
    IF is_finished(decoder) \/ ~decoder.wip_some
    THEN [ok |-> FALSE, decoder |-> decoder,
          err |-> UnexpectedCont(decoder.channel_identifier)]
    ELSE IF cont.packet_sequence # decoder.next_seq_num
    THEN [ok |-> FALSE, decoder |-> decoder,
          err |-> UnexpectedSeq(decoder.next_seq_num, cont.packet_sequence,
                                decoder.channel_identifier)]
    ELSE LET bytes_to_take == Min(decoder.remaining_payload_length, Len(cont.data))
         IN  [ok |-> TRUE,
              decoder |-> [decoder EXCEPT
                  !.wip_message.payload = @ \o Take(cont.data, bytes_to_take),
                  !.remaining_payload_length = @ - bytes_to_take,
                  !.next_seq_num = @ + 1],
              err |-> NoError]

----------------------------------------------------------------------------
(* packet.rs: reports, MessageEncoder *)

\* [0u8; n]
Zeros(n) == [i \in 1..n |-> 0]

\* U16<BigEndian> as bytes, and back
U16BigEndian(n) == <<n \div 256, n % 256>>
U16FromBigEndian(b) == b[1] * 256 + b[2]

\* U32<BigEndian> read from bytes
U32FromBigEndian(b) == <<b[1] * 256 + b[2], b[3] * 256 + b[4]>>

\* a zeroed array of n bytes with a slice copied to its start
ZeroPadded(bytes, n) == bytes \o Zeros(n - Len(bytes))

\* slice::chunks
chunks(bytes, size) ==
    [k \in 1..((Len(bytes) + size - 1) \div size) |->
        SubSeq(bytes, (k - 1) * size + 1, Min(k * size, Len(bytes)))]

split_to_packet_payloads_unpadded(payload) ==
    LET init_payload_size == Min(INIT_PACKET_PAYLOAD_SIZE, Len(payload))
    IN  [init_payload |-> ZeroPadded(Take(payload, init_payload_size),
                                     INIT_PACKET_PAYLOAD_SIZE),
         other_payloads |->
             chunks(SubSeq(payload, init_payload_size + 1, Len(payload)),
                    CONT_PACKET_PAYLOAD_SIZE)]

\* split_to_packet_payloads: the data of the initialization packet and of the
\* continuation packets
split_to_packet_payloads(payload) ==
    LET init_payload_size == Min(INIT_PACKET_PAYLOAD_SIZE, Len(payload))
        rest == chunks(SubSeq(payload, init_payload_size + 1, Len(payload)),
                       CONT_PACKET_PAYLOAD_SIZE)
    IN  [init_payload |-> ZeroPadded(Take(payload, init_payload_size),
                                     INIT_PACKET_PAYLOAD_SIZE),
         other_payloads |->
             [k \in DOMAIN rest |-> ZeroPadded(rest[k], CONT_PACKET_PAYLOAD_SIZE)]]

\* AsBytes of the two packet structs (repr(C), unaligned)
as_bytes(packet) ==
    IF packet.kind = "Init"
    THEN U32BigEndian(packet.channel_identifier) \o <<packet.command_identifier>>
             \o U16BigEndian(packet.payload_length) \o packet.data
    ELSE U32BigEndian(packet.channel_identifier) \o <<packet.packet_sequence>>
             \o packet.data

\* Packet::from_report, LayoutVerified::new_unaligned: bit 7 of the fifth byte
\* tells an initialization packet from a continuation packet
from_report(report) ==
    IF report[5] >= 128
    THEN InitializationPacket(U32FromBigEndian(SubSeq(report, 1, 4)), report[5],
                              U16FromBigEndian(SubSeq(report, 6, 7)),
                              SubSeq(report, 8, HID_REPORT_SIZE))
    ELSE ContinuationPacket(U32FromBigEndian(SubSeq(report, 1, 4)), report[5],
                            SubSeq(report, 6, HID_REPORT_SIZE))

\* the buffer after dest.put of each of the byte strings in turn; all but the
\* last are the bytes of a whole packet struct
put_all(strings) ==
    LET n == Len(strings)
        w == Len(strings[1])
    IN  IF n = 1 THEN strings[1]
        ELSE strings[1] \o [i \in 1..((n - 2) * w + Len(strings[n])) |->
                                strings[2 + ((i - 1) \div w)][1 + ((i - 1) % w)]]

\* Result<(), MessageEncoderError> and the bytes written to dest
Encoded(tag, dest, got, max) == [tag |-> tag, dest |-> dest, got |-> got, max |-> max]

\* MessageEncoder::encode_message on an empty dest; expect on the command and
\* the two asserts panic
encode_message(message) ==
    LET len == Len(message.payload)
        split == split_to_packet_payloads(message.payload)
        count == Len(split.other_payloads)
        init_packet ==
            InitializationPacket(message.channel_identifier,
                                 (message.command.byte % 128) + 128, len % 65536,
                                 split.init_payload)
        cont_packet(seq) ==
            ContinuationPacket(message.channel_identifier, seq % 256,
                               split.other_payloads[seq + 1])
        dest == put_all([k \in 1..(count + 1) |->
                            IF k = 1 THEN as_bytes(init_packet)
                            ELSE as_bytes(cont_packet(k - 2))])
    IN  IF len > MAX_MESSAGE_PAYLOAD_SIZE
        THEN Encoded("PayloadTooLarge", <<>>, len, MAX_MESSAGE_PAYLOAD_SIZE)
        ELSE IF message.command.tag # "Ok" \/ count > MAX_SEQ_NUM + 1
                    \/ Len(dest) % HID_REPORT_SIZE # 0
        THEN Encoded("Panic", <<>>, 0, 0)
        ELSE Encoded("Ok", dest, 0, 0)

----------------------------------------------------------------------------
(* packet.rs: MessageDecoder *)

\* MessageDecoder::new: chan_packets, a map from channel to ChannelParseState
NoChannels == [c \in {} |-> NoDecoder]

\* HashMap insert and remove
insert(map, key, value) ==
    [k \in DOMAIN map \cup {key} |-> IF k = key THEN value ELSE map[k]]
remove(map, key) == [k \in DOMAIN map \ {key} |-> map[k]]

\* Result<Option<Message>, MessageDecodeError>, and chan_packets afterwards
Decoded(chan_packets, tag, message, err) ==
    [chan_packets |-> chan_packets, tag |-> tag, message |-> message, err |-> err]

\* MessageDecoder::decode_initialization_packet
decode_initialization_packet(chan_packets, report) ==
    LET packet == from_report(report)
        chan == packet.channel_identifier
        new == ChannelParseState_new(packet)
        fin == try_finish(new.decoder)
    IN  IF chan \in DOMAIN chan_packets
        THEN Decoded(chan_packets, "Err", NoMessage,
                     UnexpectedInit(chan_packets[chan].next_seq_num, chan))
        ELSE IF ~new.ok
        THEN Decoded(chan_packets, "Err", NoMessage, new.err)
        ELSE IF fin.some
        THEN Decoded(chan_packets, "Some", fin.message, NoError)
        ELSE Decoded(insert(chan_packets, chan, fin.decoder), "None", NoMessage, NoError)

decode_continuation_packet_keeps_entry(chan_packets, report) ==
    LET packet == from_report(report)
        chan == packet.channel_identifier
        r == add_continuation_packet(chan_packets[chan], packet)
    IN  IF chan \notin DOMAIN chan_packets
        THEN Decoded(chan_packets, "Err", NoMessage, UnexpectedCont(chan))
        ELSE IF ~r.ok
        THEN Decoded(chan_packets, "Err", NoMessage, r.err)
        ELSE IF is_finished(r.decoder)
        THEN Decoded(insert(chan_packets, chan, try_finish(r.decoder).decoder), "Some",
                     try_finish(r.decoder).message, NoError)
        ELSE Decoded(insert(chan_packets, chan, r.decoder), "None", NoMessage, NoError)

decode_continuation_packet_clears(chan_packets, report) ==
    LET packet == from_report(report)
        chan == packet.channel_identifier
        r == add_continuation_packet(chan_packets[chan], packet)
    IN  IF chan \notin DOMAIN chan_packets
        THEN Decoded(chan_packets, "Err", NoMessage, UnexpectedCont(chan))
        ELSE IF ~r.ok
        THEN Decoded(chan_packets, "Err", NoMessage, r.err)
        ELSE IF is_finished(r.decoder)
        THEN Decoded(NoChannels, "Some", try_finish(r.decoder).message, NoError)
        ELSE Decoded(insert(chan_packets, chan, r.decoder), "None", NoMessage, NoError)

\* MessageDecoder::decode_continuation_packet
decode_continuation_packet(chan_packets, report) ==
    LET packet == from_report(report)
        chan == packet.channel_identifier
        r == add_continuation_packet(chan_packets[chan], packet)
    IN  IF chan \notin DOMAIN chan_packets
        THEN Decoded(chan_packets, "Err", NoMessage, UnexpectedCont(chan))
        ELSE IF ~r.ok
        THEN Decoded(chan_packets, "Err", NoMessage, r.err)
        ELSE IF is_finished(r.decoder)
        THEN Decoded(remove(chan_packets, chan), "Some", try_finish(r.decoder).message,
                     NoError)
        ELSE Decoded(insert(chan_packets, chan, r.decoder), "None", NoMessage, NoError)

\* MessageDecoder::reset_channel
reset_channel(chan_packets, chan) == remove(chan_packets, chan)

\* MessageDecoder::decode_packet on a report of HID_REPORT_SIZE bytes
decode_packet(chan_packets, report) ==
    IF report[5] >= 128
    THEN decode_initialization_packet(chan_packets, report)
    ELSE decode_continuation_packet(chan_packets, report)

\* the loop of Decoder::decode over the next count reports of src, the bytes
\* before at being split off already: it stops at the first report for which
\* decode_packet returns a message or an error (the loop is cut in halves to
\* keep the evaluation shallow)
RECURSIVE decode_reports(_, _, _, _)
decode_reports(chan_packets, src, at, count) ==
    IF count = 1
    THEN [decoded |-> decode_packet(chan_packets,
                                    SubSeq(src, at + 1, at + HID_REPORT_SIZE)),
          at |-> at + HID_REPORT_SIZE]
    ELSE LET first == decode_reports(chan_packets, src, at, count \div 2)
         IN  IF first.decoded.tag # "None"
             THEN first
             ELSE decode_reports(first.decoded.chan_packets, src, first.at,
                                 count - (count \div 2))

\* Decoder::decode: the result, and how many bytes of src it split off
decode(chan_packets, src) ==
    IF Len(src) < HID_REPORT_SIZE
    THEN [decoded |-> Decoded(chan_packets, "None", NoMessage, NoError), at |-> 0]
    ELSE decode_reports(chan_packets, src, 0, Len(src) \div HID_REPORT_SIZE)

----------------------------------------------------------------------------
(* packet_processing.rs: PacketProcessing *)

\* PacketProcessingState
Idle == [busy |-> FALSE, chan |-> RESERVED_CHANNEL, decoder |-> NoDecoder]
Busy(chan, decoder) == [busy |-> TRUE, chan |-> chan, decoder |-> decoder]

\* HandlerResult = Result<PacketProcessingResult, ServerError>, or a panic
Result(tag, message, err) == [tag |-> tag, message |-> message, err |-> err]
NoResult == Result("None", NoMessage, NoError)
WaitingForMorePackets == Result("WaitingForMorePackets", NoMessage, NoError)
ResponseReady(message) == Result("ResponseReady", message, NoError)
CTAP2Request(message) == Result("CTAP2Request", message, NoError)
Aborted == Result("Aborted", NoMessage, NoError)
Err(err) == Result("Err", NoMessage, err)
Panic == Result("Panic", NoMessage, NoError)

\* what a &mut self method leaves behind: the fields of self and its return value
Outcome(st, used, res) == [state |-> st, used |-> used, result |-> res]

\* PacketProcessing::is_busy
is_busy(st) == st.busy

\* PacketProcessing::abort_transaction
abort_transaction(st) == Idle

handle_init_frees(st, used, message) ==
    LET chan == message.channel_identifier
    IN  IF Len(message.payload) # 8
        THEN Outcome(st, used,
                     Err(InvalidPayloadLength(chan, Len(message.payload) % 65536)))
        ELSE IF chan = BROADCAST_CHANNEL
        THEN LET a == allocate(used)
             IN  IF ~a.some
                 THEN Outcome(st, a.used, Err(OtherError(chan)))
                 ELSE Outcome(st, a.used,
                              ResponseReady(Message(chan, message.command,
                                  InitCommandResponse_new(message.payload, a.chan))))
        ELSE Outcome(abort_transaction(st), free(used, chan),
                     ResponseReady(Message(chan, message.command,
                         InitCommandResponse_new(message.payload, chan))))

handle_init_from_prefix(st, used, message) ==
    LET chan == message.channel_identifier
    IN  IF Len(message.payload) < 8
        THEN Outcome(st, used,
                     Err(InvalidPayloadLength(chan, Len(message.payload) % 65536)))
        ELSE IF chan = BROADCAST_CHANNEL
        THEN LET a == allocate(used)
             IN  IF ~a.some
                 THEN Outcome(st, a.used, Err(OtherError(chan)))
                 ELSE Outcome(st, a.used,
                              ResponseReady(Message(chan, message.command,
                                  InitCommandResponse_new(SubSeq(message.payload, 1, 8),
                                                          a.chan))))
        ELSE Outcome(abort_transaction(st), used,
                     ResponseReady(Message(chan, message.command,
                         InitCommandResponse_new(SubSeq(message.payload, 1, 8), chan))))
\* PacketProcessing::handle_init; LayoutVerified::<_, InitCommand>::new_unaligned
\* accepts a payload of exactly size_of::<InitCommand>() = 8 bytes
handle_init(st, used, message) ==
    LET chan == message.channel_identifier
    IN  IF Len(message.payload) # 8
        THEN Outcome(st, used,
                     Err(InvalidPayloadLength(chan, Len(message.payload) % 65536)))
        ELSE IF chan = BROADCAST_CHANNEL
        THEN LET a == allocate(used)
             IN  IF ~a.some
                 THEN Outcome(st, a.used, Err(OtherError(chan)))
                 ELSE Outcome(st, a.used,
                              ResponseReady(Message(chan, message.command,
                                  InitCommandResponse_new(message.payload, a.chan))))
        ELSE Outcome(abort_transaction(st), used,
                     ResponseReady(Message(chan, message.command,
                         InitCommandResponse_new(message.payload, chan))))

handle_init_in_busy(st, used, message, end) ==
    LET chan == message.channel_identifier
    IN  IF Len(message.payload) # 8
        THEN Outcome(st, used,
                     Err(InvalidPayloadLength(chan, Len(message.payload) % 65536)))
        ELSE IF chan = BROADCAST_CHANNEL
        THEN LET a == allocate_in(used, end)
             IN  IF ~a.some
                 THEN Outcome(st, a.used, Err(ChannelBusy(chan, chan)))
                 ELSE Outcome(st, a.used,
                              ResponseReady(Message(chan, message.command,
                                  InitCommandResponse_new(message.payload, a.chan))))
        ELSE Outcome(abort_transaction(st), used,
                     ResponseReady(Message(chan, message.command,
                         InitCommandResponse_new(message.payload, chan))))

\* PacketProcessing::handle_init over an allocator whose range ends at end
handle_init_in(st, used, message, end) ==
    LET chan == message.channel_identifier
    IN  IF Len(message.payload) # 8
        THEN Outcome(st, used,
                     Err(InvalidPayloadLength(chan, Len(message.payload) % 65536)))
        ELSE IF chan = BROADCAST_CHANNEL
        THEN LET a == allocate_in(used, end)
             IN  IF ~a.some
                 THEN Outcome(st, a.used, Err(OtherError(chan)))
                 ELSE Outcome(st, a.used,
                              ResponseReady(Message(chan, message.command,
                                  InitCommandResponse_new(message.payload, a.chan))))
        ELSE Outcome(abort_transaction(st), used,
                     ResponseReady(Message(chan, message.command,
                         InitCommandResponse_new(message.payload, chan))))

process_message_ping_empty(st, used, message) ==
    LET chan == message.channel_identifier
        command == message.command
    IN  IF command.tag # "Ok"
        THEN Outcome(st, used, Err(InvalidCommand(chan, command)))
        ELSE CASE command.byte = CMD_CBOR -> Outcome(st, used, CTAP2Request(message))
               [] command.byte = CMD_INIT -> handle_init(st, used, message)
               [] command.byte = CMD_PING ->
                    Outcome(st, used, ResponseReady(Message(chan, command, <<>>)))
               [] OTHER ->
                    Outcome(st, used,
                            Err(InvalidCommand(chan, InvalidCommandByte(command.byte))))

process_message_cbor_answered(st, used, message) ==
    LET chan == message.channel_identifier
        command == message.command
    IN  IF command.tag # "Ok"
        THEN Outcome(st, used, Err(InvalidCommand(chan, command)))
        ELSE CASE command.byte = CMD_CBOR -> Outcome(st, used, ResponseReady(message))
               [] command.byte = CMD_INIT -> handle_init(st, used, message)
               [] command.byte = CMD_PING -> Outcome(st, used, ResponseReady(message))
               [] OTHER ->
                    Outcome(st, used,
                            Err(InvalidCommand(chan, InvalidCommandByte(command.byte))))

process_message_vendor_on_broadcast(st, used, message) ==
    LET chan == message.channel_identifier
        command == message.command
    IN  IF command.tag # "Ok"
        THEN Outcome(st, used,
                     Err(InvalidCommand(IF command.tag = "UnsupportedVendor" THEN BROADCAST_CHANNEL
                                        ELSE chan, command)))
        ELSE CASE command.byte = CMD_CBOR -> Outcome(st, used, CTAP2Request(message))
               [] command.byte = CMD_INIT -> handle_init(st, used, message)
               [] command.byte = CMD_PING -> Outcome(st, used, ResponseReady(message))
               [] OTHER ->
                    Outcome(st, used,
                            Err(InvalidCommand(chan, InvalidCommandByte(command.byte))))

\* PacketProcessing::process_message
process_message(st, used, message) ==
    LET chan == message.channel_identifier
        command == message.command
    IN  IF command.tag # "Ok"
        THEN Outcome(st, used, Err(InvalidCommand(chan, command)))
        ELSE CASE command.byte = CMD_CBOR -> Outcome(st, used, CTAP2Request(message))
               [] command.byte = CMD_INIT -> handle_init(st, used, message)
               [] command.byte = CMD_PING -> Outcome(st, used, ResponseReady(message))
               [] OTHER ->
                    Outcome(st, used,
                            Err(InvalidCommand(chan, InvalidCommandByte(command.byte))))

begin_transaction_stays_busy(st, used, init_packet) ==
    LET chan == init_packet.channel_identifier
        new == ChannelParseState_new(init_packet)
        fin == try_finish(new.decoder)
    IN  IF ~new.ok
        THEN Outcome(st, used, Err(new.err))
        ELSE IF fin.some
        THEN process_message(Busy(chan, fin.decoder), used, fin.message)
        ELSE IF chan = RESERVED_CHANNEL \/ chan = BROADCAST_CHANNEL
        THEN Outcome(st, used, Panic)
        ELSE Outcome(Busy(chan, fin.decoder), used, WaitingForMorePackets)

begin_transaction_busy_on_error(st, used, init_packet) ==
    LET chan == init_packet.channel_identifier
        new == ChannelParseState_new(init_packet)
        fin == try_finish(new.decoder)
    IN  IF ~new.ok
        THEN Outcome(Busy(chan, new.decoder), used, Err(new.err))
        ELSE IF fin.some
        THEN LET out == process_message(Busy(chan, fin.decoder), used, fin.message)
             IN  Outcome(Idle, out.used, out.result)
        ELSE IF chan = RESERVED_CHANNEL \/ chan = BROADCAST_CHANNEL
        THEN Outcome(st, used, Panic)
        ELSE Outcome(Busy(chan, fin.decoder), used, WaitingForMorePackets)
\* PacketProcessing::begin_transaction, entered only when not busy
begin_transaction(st, used, init_packet) ==
    LET chan == init_packet.channel_identifier
        new == ChannelParseState_new(init_packet)
        fin == try_finish(new.decoder)
    IN  IF ~new.ok
        THEN Outcome(st, used, Err(new.err))
        ELSE IF fin.some
        THEN LET out == process_message(Busy(chan, fin.decoder), used, fin.message)
             IN  Outcome(Idle, out.used, out.result)
        ELSE IF chan = RESERVED_CHANNEL \/ chan = BROADCAST_CHANNEL
        THEN Outcome(st, used, Panic)
        ELSE Outcome(Busy(chan, fin.decoder), used, WaitingForMorePackets)

invalid_channel_reserved_only(used, new_chan) == new_chan = RESERVED_CHANNEL

\* handle_packet, the two checks at its entry
invalid_channel(used, new_chan) ==
    \/ new_chan = RESERVED_CHANNEL
    \/ (new_chan # BROADCAST_CHANNEL /\ ~is_allocated(used, new_chan))

busy_conflicting_channel_aborts(st, used, packet) ==
    Outcome(abort_transaction(st), used,
            Err(ChannelBusy(st.chan, packet.channel_identifier)))

\* handle_packet, arm (Busy { chan, .. }, _) if new_chan != *chan
busy_conflicting_channel(st, used, packet) ==
    Outcome(st, used, Err(ChannelBusy(st.chan, packet.channel_identifier)))

busy_initialization_init_only(st, used, init) ==
    IF get_command_type(init) = OkCommand(CMD_INIT)
    THEN Outcome(abort_transaction(st), used, Aborted)
    ELSE Outcome(st, used, Err(ChannelBusy(st.chan, init.channel_identifier)))

busy_initialization_aborts(st, used, init) ==
    IF get_command_type(init) \in {OkCommand(CMD_INIT), OkCommand(CMD_CANCEL)}
    THEN Outcome(abort_transaction(st), used, Aborted)
    ELSE Outcome(abort_transaction(st), used,
                 Err(ChannelBusy(st.chan, init.channel_identifier)))

\* handle_packet, arm (Busy { chan, decoder }, InitializationPacket(init))
busy_initialization(st, used, init) ==
    IF get_command_type(init) \in {OkCommand(CMD_INIT), OkCommand(CMD_CANCEL)}
    THEN Outcome(abort_transaction(st), used, Aborted)
    ELSE Outcome(st, used, Err(ChannelBusy(st.chan, init.channel_identifier)))

\* handle_packet, arm (Busy { chan, ref mut decoder }, ContinuationPacket(cont))
busy_continuation(st, used, cont) ==
    LET r == add_continuation_packet(st.decoder, cont)
        fin == try_finish(r.decoder)
    IN  IF r.ok /\ is_finished(r.decoder)
        THEN process_message(Busy(st.chan, fin.decoder), used, fin.message)
        ELSE IF r.ok
        THEN Outcome(Busy(st.chan, r.decoder), used, WaitingForMorePackets)
        ELSE Outcome(abort_transaction(st), used, Err(r.err))

\* PacketProcessing::handle_packet
handle_packet(st, used, packet) ==
    LET new_chan == packet.channel_identifier
    IN  IF invalid_channel(used, new_chan)
        THEN Outcome(st, used, Err(InvalidChannel(new_chan)))
        ELSE IF st.busy /\ new_chan # st.chan
        THEN busy_conflicting_channel(st, used, packet)
        ELSE IF st.busy /\ packet.kind = "Init"
        THEN busy_initialization(st, used, packet)
        ELSE IF st.busy
        THEN busy_continuation(st, used, packet)
        ELSE IF packet.kind = "Cont"
        THEN Outcome(st, used, Err(UnexpectedCont(new_chan)))
        ELSE begin_transaction(st, used, packet)

\* PacketProcessing::handle_packet over an allocator whose range ends at end:
\* allocate is called for a complete INIT message on the broadcast channel
\* that begin_transaction hands to process_message, and nowhere else
handle_packet_in(st, used, packet, end) ==
    IF /\ ~st.busy
       /\ packet.kind = "Init"
       /\ packet.channel_identifier = BROADCAST_CHANNEL
       /\ get_command_type(packet) = OkCommand(CMD_INIT)
       /\ packet.payload_length <= INIT_PACKET_PAYLOAD_SIZE
    THEN LET new == ChannelParseState_new(packet)
             fin == try_finish(new.decoder)
             out == handle_init_in(Busy(packet.channel_identifier, fin.decoder),
                                   used, fin.message, end)
         IN  Outcome(Idle, out.used, out.result)
    ELSE handle_packet(st, used, packet)

----------------------------------------------------------------------------
(* The packets fed to the model *)

Seeds == 0..(NumSeeds - 1)

\* the n bytes of the data field of the k-th packet of a stream
DataField(seed, k, n) == [i \in 1..n |-> (seed * 97 + k * 31 + i) % 256]

\* channels: reserved, broadcast, and one more than can be allocated
Chans == {RESERVED_CHANNEL, BROADCAST_CHANNEL} \cup {U32(i) : i \in 1..(MaxChannels + 1)}

\* command bytes on the wire: PING, INIT, CBOR, CANCEL, MSG, a vendor command,
\* a byte that is no command
CommandBytes == {128 + CMD_PING, 128 + CMD_INIT, 128 + CMD_CBOR, 128 + CMD_CANCEL,
                 128 + CMD_MSG, 128 + CTAPHID_VENDOR_FIRST, 128 + 2}

\* declared lengths: empty, a nonce, a full initialization packet, one byte
\* more, two continuations, one byte too many
Lengths == {0, 8, INIT_PACKET_PAYLOAD_SIZE, INIT_PACKET_PAYLOAD_SIZE + 1,
            INIT_PACKET_PAYLOAD_SIZE + CONT_PACKET_PAYLOAD_SIZE + 1,
            MAX_MESSAGE_PAYLOAD_SIZE + 1}

Sequences == {0, 1, 2}

InitializationPackets ==
    {InitializationPacket(c, b, l, DataField(d, 0, INIT_PACKET_PAYLOAD_SIZE)) :
        c \in Chans, b \in CommandBytes, l \in Lengths, d \in Seeds}

ContinuationPackets ==
    {ContinuationPacket(c, q, DataField(d, q + 1, CONT_PACKET_PAYLOAD_SIZE)) :
        c \in Chans, q \in Sequences, d \in Seeds}

Packets == InitializationPackets \cup ContinuationPackets

\* every command byte an initialization packet can carry, on the broadcast
\* channel and on the first allocated one, as a message of one packet and as
\* the start of a message of two, and the continuation packet that ends it
CommandPackets ==
    {InitializationPacket(c, b, l, DataField(0, 0, INIT_PACKET_PAYLOAD_SIZE)) :
        c \in {BROADCAST_CHANNEL, U32(1)}, b \in 128..255,
        l \in {8, INIT_PACKET_PAYLOAD_SIZE + 1}}
    \cup {ContinuationPacket(c, 0, DataField(0, 1, CONT_PACKET_PAYLOAD_SIZE)) :
              c \in {BROADCAST_CHANNEL, U32(1)}}

\* would handle_packet allocate a channel for this packet
Allocates(st, packet) ==
    /\ ~st.busy
    /\ packet.kind = "Init"
    /\ packet.channel_identifier = BROADCAST_CHANNEL
    /\ get_command_type(packet) = OkCommand(CMD_INIT)
    /\ packet.payload_length = 8

----------------------------------------------------------------------------
(* A ChannelParseState fed one stream *)

AssemblyLengths ==
    {0, 1, INIT_PACKET_PAYLOAD_SIZE, INIT_PACKET_PAYLOAD_SIZE + 1,
     INIT_PACKET_PAYLOAD_SIZE + CONT_PACKET_PAYLOAD_SIZE,
     INIT_PACKET_PAYLOAD_SIZE + CONT_PACKET_PAYLOAD_SIZE + 1,
     MAX_MESSAGE_PAYLOAD_SIZE - CONT_PACKET_PAYLOAD_SIZE,
     MAX_MESSAGE_PAYLOAD_SIZE - CONT_PACKET_PAYLOAD_SIZE + 1,
     MAX_MESSAGE_PAYLOAD_SIZE, MAX_MESSAGE_PAYLOAD_SIZE + 1}

AssemblyInput(phase, len, seed, fed, conts, legit, err) ==
    [phase |-> phase, len |-> len, seed |-> seed, fed |-> fed, conts |-> conts,
     legit |-> legit, err |-> err]

NoAssembly == AssemblyInput("none", 0, 0, <<>>, 0, TRUE, NoError)

AssemblyChannel == U32(1)

\* ChannelParseState::new on an initialization packet
AssemblyNew(len, seed) ==
    LET data == DataField(seed, 0, INIT_PACKET_PAYLOAD_SIZE)
        new == ChannelParseState_new(
                   InitializationPacket(AssemblyChannel, 128 + CMD_PING, len, data))
    IN  /\ asm_in.phase = "none"
        /\ asm' = new.decoder
        /\ asm_in' = AssemblyInput(IF new.ok THEN "open" ELSE "error", len, seed, data,
                                   0, TRUE, new.err)
        /\ UNCHANGED beside_assembly

\* add_continuation_packet on the next continuation packet of the stream, whose
\* sequence number is the next one (q = 0) or skips one (q = 1)
AssemblyContinuation(q) ==
    LET seq == (asm_in.conts + q) % (MAX_SEQ_NUM + 1)
        data == DataField(asm_in.seed, asm_in.conts + 1, CONT_PACKET_PAYLOAD_SIZE)
        r == add_continuation_packet(asm, ContinuationPacket(AssemblyChannel, seq, data))
    IN  /\ asm_in.phase = "open"
        /\ asm' = r.decoder
        /\ asm_in' = AssemblyInput(IF r.ok THEN "open" ELSE "error", asm_in.len,
                                   asm_in.seed, asm_in.fed \o data, asm_in.conts + 1,
                                   asm_in.legit /\ q = 0 /\ ~is_finished(asm), r.err)
        /\ UNCHANGED beside_assembly

----------------------------------------------------------------------------
(* ServerError values converted into messages *)

Conversion(err, message) == [err |-> err, message |-> message]

NoConversion == Conversion(NoError, NoMessage)

\* the errors: every variant of MessageDecodeError and of ServerError
ServerErrors ==
    {UnexpectedSeq(e, g, c) : e \in {0, 1, MAX_SEQ_NUM}, g \in {0, 2, MAX_SEQ_NUM}, c \in Chans}
    \cup {UnexpectedInit(e, c) : e \in {0, MAX_SEQ_NUM}, c \in Chans}
    \cup {UnexpectedCont(c) : c \in Chans}
    \cup {InvalidPayloadLength(c, l) : c \in Chans, l \in {9, MAX_MESSAGE_PAYLOAD_SIZE + 1}}
    \cup {InvalidCommand(c, r) : c \in Chans,
              r \in {UnsupportedVendor(CTAPHID_VENDOR_FIRST), InvalidCommandByte(CMD_MSG)}}
    \cup {InvalidParameter(c) : c \in Chans}
    \cup {IoError}
    \cup {ChannelBusy(b, n) : b \in Chans \ {RESERVED_CHANNEL, BROADCAST_CHANNEL}, n \in Chans}
    \cup {InvalidChannel(c) : c \in Chans}
    \cup {OtherError(c) : c \in Chans}

\* Message::from(err)
ConvertError(err) ==
    /\ pc = "receive"
    /\ conv' = Conversion(err, ServerErrorMessage(err))
    /\ pc' = "converted"
    /\ UNCHANGED beside_conversion

\* the message has been taken
ConvertReturn ==
    /\ pc = "converted"
    /\ conv' = NoConversion
    /\ pc' = "receive"
    /\ UNCHANGED beside_conversion

----------------------------------------------------------------------------
(* A message encoded, and its reports given to a new MessageDecoder *)

\* the message, what encode_message made of it, how many bytes of that the
\* decoder has taken, the decoder's chan_packets, and what each call of the
\* decoder returned with the number of bytes taken by then
Codec(phase, message, encoded, pos, chan_packets, out) ==
    [phase |-> phase, message |-> message, encoded |-> encoded, pos |-> pos,
     chan_packets |-> chan_packets, out |-> out]

NoCodec == Codec("none", NoMessage, Encoded("None", <<>>, 0, 0), 0, NoChannels, <<>>)

\* channels 1337 and 0x12345678, and the broadcast channel
CodecChans == {<<0, 1337>>, <<4660, 22136>>, BROADCAST_CHANNEL}

\* payload lengths: none, four bytes, what one, two, three and four reports
\* hold, the longest, and one byte more
CodecLengths ==
    {0, 4, INIT_PACKET_PAYLOAD_SIZE, INIT_PACKET_PAYLOAD_SIZE + 1,
     INIT_PACKET_PAYLOAD_SIZE + CONT_PACKET_PAYLOAD_SIZE,
     INIT_PACKET_PAYLOAD_SIZE + CONT_PACKET_PAYLOAD_SIZE + 1,
     INIT_PACKET_PAYLOAD_SIZE + CONT_PACKET_PAYLOAD_SIZE * 2 + 5,
     MAX_MESSAGE_PAYLOAD_SIZE, MAX_MESSAGE_PAYLOAD_SIZE + 1}

\* a payload of n bytes, as a sequence
Payload(seed, n) == SubSeq(DataField(seed, 0, n), 1, n)

\* messages with a valid command
CodecMessages ==
    {Message(c, OkCommand(b), Payload(d, l)) :
        c \in CodecChans, b \in CommandType, l \in CodecLengths, d \in Seeds}

\* encode_message(message, dest) with dest empty, and MessageDecoder::new
CodecEncode(message) ==
    LET e == encode_message(message)
    IN  /\ codec.phase = "none"
        /\ codec' = Codec(IF e.tag = "Ok" THEN "encoded" ELSE "failed", message, e, 0,
                          NoChannels, <<>>)
        /\ UNCHANGED beside_codec

\* decode_packet on the next report of the encoding
CodecDecodePacket ==
    LET dest == codec.encoded.dest
        r == decode_packet(codec.chan_packets,
                           SubSeq(dest, codec.pos + 1, codec.pos + HID_REPORT_SIZE))
    IN  /\ codec.phase = "encoded"
        /\ codec.pos < Len(dest)
        /\ codec' = [codec EXCEPT
               !.pos = @ + HID_REPORT_SIZE,
               !.chan_packets = r.chan_packets,
               !.out = Append(@, [pos |-> codec.pos + HID_REPORT_SIZE, tag |-> r.tag,
                                  message |-> r.message])]
        /\ UNCHANGED beside_codec

\* Decoder::decode on a buffer that holds the whole encoding, or once on the
\* buffer that is left when all of it has been taken
CodecDecode ==
    LET dest == codec.encoded.dest
        r == decode(codec.chan_packets, SubSeq(dest, codec.pos + 1, Len(dest)))
    IN  /\ codec.phase = "encoded"
        /\ \/ codec.pos = 0
           \/ (/\ codec.pos = Len(dest)
               /\ codec.out[Len(codec.out)].tag # "None")
        /\ codec' = [codec EXCEPT
               !.pos = @ + r.at,
               !.chan_packets = r.decoded.chan_packets,
               !.out = Append(@, [pos |-> codec.pos + r.at, tag |-> r.decoded.tag,
                                  message |-> r.decoded.message])]
        /\ UNCHANGED beside_codec

----------------------------------------------------------------------------
(* A MessageDecoder fed the packets of several channels, and beside it one   *)
(* MessageDecoder for each channel that is fed the packets of that channel   *)
(* alone                                                                     *)

MuxChans == {U32(1), U32(2)}

\* the packets of a channel: initialization packets of a message of one, two
\* and three packets, and the first two continuation packets; the data differ
\* from channel to channel
MuxPackets(c) ==
    {InitializationPacket(c, 128 + CMD_PING, l, DataField(c[2], 0, INIT_PACKET_PAYLOAD_SIZE)) :
        l \in {8, INIT_PACKET_PAYLOAD_SIZE + 1,
               INIT_PACKET_PAYLOAD_SIZE + CONT_PACKET_PAYLOAD_SIZE + 1}}
    \cup {ContinuationPacket(c, q, DataField(c[2], q + 1, CONT_PACKET_PAYLOAD_SIZE)) :
              q \in {0, 1}}

\* what decode_packet returned
Answer(tag, message, err) == [tag |-> tag, message |-> message, err |-> err]

NoAnswer == Answer("Nothing", NoMessage, NoError)

\* MessageDecoder::new, for the shared decoder (chan_packets) and for the one
\* of each channel (solo); pre is chan_packets before the last call, last the
\* packet of the last call and answer its result; out keeps the results of
\* the shared decoder for the packets of each channel, alone those of the
\* channel's own decoder
NoMux ==
    [fed |-> 0, chan_packets |-> NoChannels, pre |-> NoChannels, last |-> NoPacket,
     answer |-> NoAnswer,
     out |-> [c \in MuxChans |-> <<>>],
     solo |-> [c \in MuxChans |-> NoChannels],
     alone |-> [c \in MuxChans |-> <<>>]]

\* decode_packet on the report of the next packet, which is one of channel c
MuxDecodePacket(packet) ==
    /\ mux.fed < MaxInterleaved
    /\ \E c \in {packet.channel_identifier} :
       \E report \in {as_bytes(packet)} :
       \E r \in {decode_packet(mux.chan_packets, report)} :
       \E a \in {decode_packet(mux.solo[c], report)} :
          mux' = [mux EXCEPT
                     !.fed = @ + 1,
                     !.pre = mux.chan_packets,
                     !.chan_packets = r.chan_packets,
                     !.last = packet,
                     !.answer = Answer(r.tag, r.message, r.err),
                     !.out[c] = Append(@, Answer(r.tag, r.message, r.err)),
                     !.solo[c] = a.chan_packets,
                     !.alone[c] = Append(@, Answer(a.tag, a.message, a.err))]
    /\ UNCHANGED beside_mux

\* reset_channel, invoked after a decode error of the channel
MuxResetChannel ==
    /\ mux.fed < MaxInterleaved
    /\ mux.answer.tag = "Err"
    /\ \E c \in {mux.last.channel_identifier} :
          mux' = [mux EXCEPT
                     !.fed = @ + 1,
                     !.pre = mux.chan_packets,
                     !.chan_packets = reset_channel(mux.chan_packets, c),
                     !.last = NoPacket,
                     !.answer = NoAnswer,
                     !.solo[c] = reset_channel(mux.solo[c], c)]
    /\ UNCHANGED beside_mux

----------------------------------------------------------------------------
(* ciborium::value::Value, and cbor/ordered_ser.rs *)

\* a CBOR value tree: n is an integer, a tag number or a truth value (0, 1);
\* text holds the bytes of a text or byte string; items the elements of an
\* array or the value under a tag; entries the <<key, value>> pairs of a map
Value(kind, n, text, items, entries) ==
    [kind |-> kind, n |-> n, text |-> text, items |-> items, entries |-> entries]

Integer(n) == Value("Integer", n, <<>>, <<>>, <<>>)
Text(t) == Value("Text", 0, t, <<>>, <<>>)
Bytes(b) == Value("Bytes", 0, b, <<>>, <<>>)
Bool(b) == Value("Bool", IF b THEN 1 ELSE 0, <<>>, <<>>, <<>>)
Null == Value("Null", 0, <<>>, <<>>, <<>>)
Array(items) == Value("Array", 0, <<>>, items, <<>>)
Map(entries) == Value("Map", 0, <<>>, <<>>, entries)
Tag(t, v) == Value("Tag", t, <<>>, <<v>>, <<>>)

\* the process has panicked instead of producing a value
Panicked == Value("Panicked", 0, <<>>, <<>>, <<>>)

\* Ord::cmp of two integers
cmp(a, b) == IF a < b THEN "Less" ELSE IF a = b THEN "Equal" ELSE "Greater"

\* str::cmp: bytewise, a proper prefix is less
str_cmp(t1, t2) ==
    LET differ == {i \in 1..Min(Len(t1), Len(t2)) : t1[i] # t2[i]}
        first == CHOOSE i \in differ : \A j \in differ : i <= j
    IN  IF differ = {} THEN cmp(Len(t1), Len(t2)) ELSE cmp(t1[first], t2[first])

\* cmp_values: text keys by length and then bytewise, integer keys by number
cmp_values(val1, val2) ==
    IF val1.kind = "Text" /\ val2.kind = "Text"
    THEN IF Len(val1.text) # Len(val2.text)
         THEN cmp(Len(val1.text), Len(val2.text))
         ELSE str_cmp(val1.text, val2.text)
    ELSE IF val1.kind = "Integer" /\ val2.kind = "Integer"
    THEN cmp(val1.n, val2.n)
    ELSE "Panic"

\* the outcome of sorting the entries of a map
Sorted(panic, entries) == [panic |-> panic, entries |-> entries]

\* one step of the stable sort: entry x is moved left past every entry
\* whose key is greater, and the comparison that stops it may panic
insert_tail(sorted, x) ==
    LET stops == {i \in 1..Len(sorted.entries) :
                      cmp_values(x[1], sorted.entries[i][1]) # "Less"}
        k == IF stops = {} THEN 0 ELSE CHOOSE i \in stops : \A j \in stops : j <= i
    IN  IF sorted.panic \/ (k > 0 /\ cmp_values(x[1], sorted.entries[k][1]) = "Panic")
        THEN Sorted(TRUE, <<>>)
        ELSE Sorted(FALSE, SubSeq(sorted.entries, 1, k) \o <<x>>
                           \o SubSeq(sorted.entries, k + 1, Len(sorted.entries)))

\* only the last entry is put in its place
sort_by_one_pass(entries) ==
    IF Len(entries) <= 1
    THEN Sorted(FALSE, entries)
    ELSE insert_tail(Sorted(FALSE, SubSeq(entries, 1, Len(entries) - 1)),
                     entries[Len(entries)])

RECURSIVE sort_by(_)
\* m.sort_by(|(k1, _v1), (k2, _v2)| cmp_values(k1, k2)), a stable sort
sort_by(entries) ==
    IF Len(entries) <= 1
    THEN Sorted(FALSE, entries)
    ELSE insert_tail(sort_by(SubSeq(entries, 1, Len(entries) - 1)), entries[Len(entries)])

make_ordered_top_level(value) ==
    IF value.kind = "Map"
    THEN LET s == sort_by(value.entries)
         IN  IF s.panic THEN Panicked ELSE Map(s.entries)
    ELSE value

RECURSIVE make_ordered(_)
\* make_ordered: the tree with every map in it sorted, or a panic
make_ordered(value) ==
    CASE value.kind = "Tag" ->
           LET v == make_ordered(value.items[1])
           IN  IF v = Panicked THEN Panicked ELSE Tag(value.n, v)
      [] value.kind = "Array" ->
           LET vals == [i \in 1..Len(value.items) |-> make_ordered(value.items[i])]
           IN  IF \E i \in 1..Len(vals) : vals[i] = Panicked
               THEN Panicked
               ELSE Array(SubSeq(vals, 1, Len(vals)))
      [] value.kind = "Map" ->
           LET m == [i \in 1..Len(value.entries) |->
                        <<make_ordered(value.entries[i][1]),
                          make_ordered(value.entries[i][2])>>]
               s == sort_by(SubSeq(m, 1, Len(m)))
           IN  IF \E i \in 1..Len(m) : m[i][1] = Panicked \/ m[i][2] = Panicked
               THEN Panicked
               ELSE IF s.panic THEN Panicked ELSE Map(s.entries)
      [] OTHER -> value

----------------------------------------------------------------------------
(* ciborium::ser::into_writer, and the CTAP2 messages of authenticator/api.rs *)

\* the head of a data item: major type and argument
head(major, n) ==
    IF n < 24 THEN <<major * 32 + n>>
    ELSE IF n < 256 THEN <<major * 32 + 24, n>>
    ELSE <<major * 32 + 25, n \div 256, n % 256>>

RECURSIVE concat(_)
concat(strings) ==
    IF strings = <<>> THEN <<>> ELSE Head(strings) \o concat(Tail(strings))

RECURSIVE into_writer(_)
\* the bytes of a value tree
into_writer(value) ==
    CASE value.kind = "Integer" ->
           IF value.n >= 0 THEN head(0, value.n) ELSE head(1, -1 - value.n)
      [] value.kind = "Bytes" -> head(2, Len(value.text)) \o value.text
      [] value.kind = "Text" -> head(3, Len(value.text)) \o value.text
      [] value.kind = "Array" ->
           head(4, Len(value.items))
               \o concat([i \in 1..Len(value.items) |-> into_writer(value.items[i])])
      [] value.kind = "Map" ->
           head(5, Len(value.entries))
               \o concat([i \in 1..Len(value.entries) |->
                             into_writer(value.entries[i][1])
                                 \o into_writer(value.entries[i][2])])
      [] value.kind = "Tag" -> head(6, value.n) \o into_writer(value.items[1])
      [] value.kind = "Bool" -> <<244 + value.n>>
      [] value.kind = "Null" -> <<246>>

\* StatusCode
Ctap1ErrSuccess == 0
Ctap1ErrInvalidCommand == 1
Ctap1ErrInvalidLength == 3
Ctap2ErrInvalidCbor == 18
Ctap1ErrOther == 127

\* AuthenticatorError
CTAPErrorStatus(status) == [kind |-> "CTAPErrorStatus", status |-> status]
DeserializationError == [kind |-> "DeserializationError", status |-> 0]
CannotSendResponse == [kind |-> "CannotSendResponse", status |-> 0]

AuthServiceError(inner, channel_identifier) ==
    [inner |-> inner, channel_identifier |-> channel_identifier]

AuthServiceErrorMessage_success(err) ==
    Message(err.channel_identifier, OkCommand(CMD_CBOR), <<Ctap1ErrSuccess>>)

\* impl From<&AuthServiceError> for Message
AuthServiceErrorMessage(err) ==
    LET status_code ==
            CASE err.inner.kind = "CTAPErrorStatus" -> err.inner.status
              [] err.inner.kind = "DeserializationError" -> Ctap2ErrInvalidCbor
              [] err.inner.kind = "CannotSendResponse" -> Ctap1ErrOther
    IN  Message(err.channel_identifier, OkCommand(CMD_CBOR), <<status_code>>)

\* the names of the fields of the GetInfo response, as bytes
versions == <<118, 101, 114, 115, 105, 111, 110, 115>>
extensions == <<101, 120, 116, 101, 110, 115, 105, 111, 110, 115>>
aaguid == <<97, 97, 103, 117, 105, 100>>
options == <<111, 112, 116, 105, 111, 110, 115>>
plat == <<112, 108, 97, 116>>
rk == <<114, 107>>
up == <<117, 112>>
uv == <<117, 118>>
FIDO_2_0 == <<70, 73, 68, 79, 95, 50, 95, 48>>
APP_AAGUID == <<1, 3, 3, 7, 1, 1, 2, 3, 5, 8, 13, 21, 1, 3, 3, 7>>

\* AuthenticatorGetInfoResponse::field_mappings
GetInfoMappings == <<<<versions, 1>>, <<extensions, 2>>, <<aaguid, 3>>, <<options, 4>>>>

\* Keymappable::map_field: Some(tag) as the tag, None as null
map_field(mappings, field) ==
    IF \E i \in 1..Len(mappings) : mappings[i][1] = field
    THEN Integer(mappings[CHOOSE i \in 1..Len(mappings) : mappings[i][1] = field][2])
    ELSE Null

\* KeyMappedStructSerializer: a struct, given as its <<field, value>> pairs in
\* the order they are declared, written as a map keyed by the mapped fields
serialize_keymapped(mappings, fields) ==
    Map([i \in 1..Len(fields) |-> <<map_field(mappings, fields[i][1]), fields[i][2]>>])

\* a struct serialized by the derived Serialize: a map keyed by field names
serialize_struct(fields) ==
    Map([i \in 1..Len(fields) |-> <<Text(fields[i][1]), fields[i][2]>>])

\* AuthenticatorGetInfoResponse::default, serialized field by field
GetInfoResponse_default ==
    <<<<versions, Array(<<Text(FIDO_2_0)>>)>>,
      <<extensions, Array(<<>>)>>,
      <<aaguid, Bytes(APP_AAGUID)>>,
      <<options, serialize_struct(<<<<plat, Bool(FALSE)>>, <<rk, Bool(TRUE)>>,
                                    <<up, Bool(TRUE)>>, <<uv, Bool(TRUE)>>>>)>>>>

\* the GetInfo response as it is written: keyed, ordered, encoded
GetInfoResponse_bytes ==
    into_writer(make_ordered(serialize_keymapped(GetInfoMappings, GetInfoResponse_default)))

\* impl From<CTAP2ResponseData> for Vec<u8>
ResponseDataBytes(data) ==
    IF data = "ResetOK"
    THEN <<Ctap1ErrSuccess>>
    ELSE <<Ctap1ErrSuccess>> \o GetInfoResponse_bytes

CTAP2Response(data, channel_identifier) ==
    [data |-> data, channel_identifier |-> channel_identifier]

\* impl From<CTAP2Response> for Message
CTAP2ResponseMessage(res) ==
    Message(res.channel_identifier, OkCommand(CMD_CBOR), ResponseDataBytes(res.data))

----------------------------------------------------------------------------
(* cbor/key_mapped_de.rs, and the CTAP2 requests of authenticator/api.rs *)

\* authenticator/command.rs: CTAPCommand
CTAP_MAKE_CREDENTIAL == 1
CTAP_GET_ASSERTION == 2
CTAP_GET_INFO == 4
CTAP_GET_CLIENT_PIN == 6
CTAP_RESET == 7
CTAP_GET_NEXT_ASSERTION == 8
CTAP_BIO_ENROLLMENT == 9
CTAP_SELECTION == 11
CTAP_LARGE_BLOBS == 12
CTAP_CONFIG == 13

CTAPCommand ==
    {CTAP_MAKE_CREDENTIAL, CTAP_GET_ASSERTION, CTAP_GET_INFO, CTAP_GET_CLIENT_PIN,
     CTAP_RESET, CTAP_GET_NEXT_ASSERTION, CTAP_BIO_ENROLLMENT, CTAP_SELECTION,
     CTAP_LARGE_BLOBS, CTAP_CONFIG}

\* the head of the next data item of a reader: its major type and the bytes
\* after it, or an error when the bytes end or the head is not well formed
Header(ok, major, rest) == [ok |-> ok, major |-> major, rest |-> rest]

pull(bytes) ==
    LET info == bytes[1] % 32
        extra == CASE info < 24 -> 0
                   [] info = 24 -> 1
                   [] info = 25 -> 2
                   [] info = 26 -> 4
                   [] info = 27 -> 8
                   [] info = 31 -> 0
                   [] OTHER -> Len(bytes)
    IN  IF bytes = <<>> THEN Header(FALSE, 0, <<>>)
        ELSE IF Len(bytes) < 1 + extra THEN Header(FALSE, 0, <<>>)
        ELSE Header(TRUE, bytes[1] \div 32, SubSeq(bytes, 2 + extra, Len(bytes)))

\* the outcome of a deserialization: a value, an error or a panic
Deserialized(tag, value) == [tag |-> tag, value |-> value]

\* KeyMappedMapAccess::next_key_seed is todo!()
next_key_seed == Deserialized("Panic", Null)

\* KeyMappedVisitor::visit_map: the visitor of the struct asks for the first
\* key of the map through KeyMappedMapAccess
visit_map == next_key_seed

RECURSIVE deserialize_map(_)
\* KeyMappedDeserializer::deserialize_struct, which is deserialize_map of the
\* reader: tags are skipped, a map is given to the visitor, all else is an error
deserialize_map(bytes) ==
    LET header == pull(bytes)
    IN  IF ~header.ok THEN Deserialized("Err", Null)
        ELSE IF header.major = 6 THEN deserialize_map(header.rest)
        ELSE IF header.major = 5 THEN visit_map
        ELSE Deserialized("Err", Null)

\* impl Deserialize for KeymappedStruct, from the bytes of a reader
KeymappedStruct_deserialize(bytes) == deserialize_map(bytes)

\* Result<CTAP2Request, AuthenticatorError>, or a panic
TryFrom(tag, command, channel_identifier, err) ==
    [tag |-> tag, command |-> command, channel_identifier |-> channel_identifier,
     err |-> err]

NoAuthenticatorError == CTAPErrorStatus(Ctap1ErrSuccess)

NoTryFrom == TryFrom("None", "None", RESERVED_CHANNEL, NoAuthenticatorError)

\* CTAP2Command::from_ctap_cbor
from_ctap_cbor(command_byte, payload, chan) ==
    LET data == KeymappedStruct_deserialize(payload)
    IN  IF command_byte \notin CTAPCommand
        THEN TryFrom("Err", "None", chan, CTAPErrorStatus(Ctap1ErrInvalidCommand))
        ELSE IF command_byte = CTAP_MAKE_CREDENTIAL
        THEN CASE data.tag = "Ok" ->
                    TryFrom("Ok", "MakeCredential", chan, NoAuthenticatorError)
               [] data.tag = "Err" -> TryFrom("Err", "None", chan, DeserializationError)
               [] data.tag = "Panic" -> TryFrom("Panic", "None", chan, NoAuthenticatorError)
        ELSE IF command_byte = CTAP_GET_INFO
        THEN TryFrom("Ok", "GetInfo", chan, NoAuthenticatorError)
        ELSE IF command_byte = CTAP_RESET
        THEN TryFrom("Ok", "Reset", chan, NoAuthenticatorError)
        ELSE TryFrom("Panic", "None", chan, NoAuthenticatorError)

\* impl TryFrom<&Message> for CTAP2Request
try_from(value) ==
    IF value.command # OkCommand(CMD_CBOR)
    THEN TryFrom("Panic", "None", value.channel_identifier, NoAuthenticatorError)
    ELSE IF value.payload = <<>>
    THEN TryFrom("Err", "None", value.channel_identifier,
                 CTAPErrorStatus(Ctap1ErrInvalidLength))
    ELSE from_ctap_cbor(value.payload[1], Tail(value.payload), value.channel_identifier)

----------------------------------------------------------------------------
(* cbor/ordered_ser.rs and cbor/key_mapped.rs, run on values of their own *)

\* nothing has been built yet
NoCbor ==
    [phase |-> "none", value |-> Null, ordered |-> Null, again |-> Null,
     record |-> Null, bytes |-> <<>>, decoded |-> Deserialized("None", Null)]

\* the k-th integer key and the k-th text key; the text keys are b, aa, a,
\* ab, ..., so that the shorter is not always the bytewise smaller
IntegerKey(k) == Integer(k - 2)
TextKey(k) == Text(IF k % 2 = 1 THEN <<99 - ((k + 1) \div 2)>> ELSE <<97, 96 + (k \div 2)>>)

\* the orders in which up to MaxEntries different keys are put in a map
KeyOrders ==
    {s \in UNION {[1..n -> 1..MaxEntries] : n \in 0..MaxEntries} :
        \A i, j \in DOMAIN s : i # j => s[i] # s[j]}

\* the maps of integer keys only and of text keys only, each key with a value
\* of its own
IntegerMaps ==
    {Map([i \in DOMAIN s |-> <<IntegerKey(s[i]), Integer(10 + s[i])>>]) : s \in KeyOrders}
TextMaps ==
    {Map([i \in DOMAIN s |-> <<TextKey(s[i]), Integer(20 + s[i])>>]) : s \in KeyOrders}

\* the trees given to make_ordered: a map, a map in an array, a map under a
\* tag, and maps in an array and under a tag in the values of a map
Trees ==
    IntegerMaps \cup TextMaps
    \cup {Array(<<Integer(0), m>>) : m \in IntegerMaps \cup TextMaps}
    \cup {Tag(1, m) : m \in IntegerMaps \cup TextMaps}
    \cup {Map(<<<<IntegerKey(2), Array(<<m1>>)>>, <<IntegerKey(1), Tag(1, m2)>>>>) :
             m1 \in IntegerMaps, m2 \in TextMaps}
    \cup {Map(<<<<TextKey(2), Tag(1, Array(<<m1>>))>>, <<TextKey(1), m2>>>>) :
             m1 \in TextMaps, m2 \in IntegerMaps}

\* a tree is built
BuildValue(value) ==
    /\ cbor.phase = "none"
    /\ cbor' = [cbor EXCEPT !.phase = "value", !.value = value]
    /\ UNCHANGED beside_cbor

\* make_ordered(&mut value)
MakeOrdered ==
    /\ cbor.phase = "value"
    /\ cbor' = [cbor EXCEPT !.phase = "ordered", !.ordered = make_ordered(cbor.value)]
    /\ UNCHANGED beside_cbor

\* make_ordered(&mut value) once more
MakeOrderedAgain ==
    /\ cbor.phase = "ordered"
    /\ cbor.ordered # Panicked
    /\ cbor' = [cbor EXCEPT !.phase = "again", !.again = make_ordered(cbor.ordered)]
    /\ UNCHANGED beside_cbor

\* the struct Foo of test_keymapped: x, y and bar, a Bar of z and b, a keyed
\* Baz of the text x
Foo(x_val, y_val, z_val, text) ==
    [x |-> x_val, y |-> y_val, bar |-> [z |-> z_val, b |-> [x |-> text]]]

\* Foo::field_mappings and Baz::field_mappings, the fields by their bytes
FooMappings == <<<<<<120>>, 137>>, <<<<121>>, 138>>, <<<<98, 97, 114>>, 139>>>>
BazMappings == <<<<<<120>>, 9>>>>

\* hey
hey == <<104, 101, 121>>

\* the records encoded: every field value below NumFieldValues
Foos == {Foo(x_val, y_val, z_val, hey) : x_val, y_val, z_val \in 0..(NumFieldValues - 1)}

\* KeymappedStruct::from(value) serialized: Foo keyed, Bar inside it by its
\* field names, Baz inside Bar keyed
KeymappedStruct_serialize(foo) ==
    serialize_keymapped(
        FooMappings,
        <<<<<<120>>, Integer(foo.x)>>,
          <<<<121>>, Integer(foo.y)>>,
          <<<<98, 97, 114>>,
            serialize_struct(
                <<<<<<122>>, Integer(foo.bar.z)>>,
                  <<<<98>>, serialize_keymapped(BazMappings,
                                                <<<<<<120>>, Text(foo.bar.b.x)>>>>)>>>>)>>>>)

\* ciborium::ser::into_writer(&packed, &mut bytes)
KeyedEncode(foo) ==
    /\ cbor.phase = "none"
    /\ cbor' = [cbor EXCEPT !.phase = "encoded", !.record = foo,
                           !.bytes = into_writer(KeymappedStruct_serialize(foo))]
    /\ UNCHANGED beside_cbor

\* ciborium::de::from_reader(&*bytes)
KeyedDecode ==
    /\ cbor.phase = "encoded"
    /\ cbor' = [cbor EXCEPT !.phase = "decoded",
                           !.decoded = KeymappedStruct_deserialize(cbor.bytes)]
    /\ UNCHANGED beside_cbor

----------------------------------------------------------------------------
(* authenticator/api.rs: CTAP2Service *)

Callers == 1..NumCallers
NoCaller == 0

\* tokio::sync::Mutex<CTAP2ServiceImpl>: the future that holds the lock, and
\* the futures whose lock().await is pending, first come first
Mutex(holder, waiters) == [holder |-> holder, waiters |-> waiters]

lock_always_acquires(mutex, t) ==
    [mutex |-> Mutex(t, mutex.waiters), acquired |-> TRUE]

\* imp.lock().await polled for the first time by future t
lock(mutex, t) ==
    IF mutex.holder = NoCaller
    THEN [mutex |-> Mutex(t, mutex.waiters), acquired |-> TRUE]
    ELSE [mutex |-> Mutex(mutex.holder, Append(mutex.waiters, t)), acquired |-> FALSE]

\* the MutexGuard is dropped: the lock passes to the first waiter, if any
unlock(mutex) ==
    IF mutex.waiters = <<>>
    THEN Mutex(NoCaller, <<>>)
    ELSE Mutex(Head(mutex.waiters), Tail(mutex.waiters))

\* a pending lock().await is dropped
leave(mutex, t) ==
    Mutex(mutex.holder, SelectSeq(mutex.waiters, LAMBDA u : u # t))

CTAP2Commands == {"GetInfo", "MakeCredential", "Reset"}

\* CTAP2ServiceImpl::handle_command; handle_make_credential is todo!()
handle_command(command) ==
    CASE command = "GetInfo" -> "GetInfo"
      [] command = "Reset" -> "ResetOK"
      [] command = "MakeCredential" -> "Panic"

\* the future call returns: where it stands, its request, and its output
Future(phase, command, channel_identifier, data) ==
    [phase |-> phase, command |-> command, channel_identifier |-> channel_identifier,
     data |-> data]

NoFuture == Future("none", "None", RESERVED_CHANNEL, "None")

\* CTAP2Service::new; log records when handle_command was entered and left,
\* out the messages made of the outputs of the futures
CTAP2Service_new ==
    [imp |-> Mutex(NoCaller, <<>>), futures |-> [t \in Callers |-> NoFuture], log |-> <<>>,
     out |-> <<>>]

\* CTAP2Service::call: the future is made, nothing of it has run
ServiceCall(t, command) ==
    /\ svc.futures[t].phase = "none"
    /\ svc' = [svc EXCEPT !.futures[t] = Future("created", command, U32(t), "None")]
    /\ UNCHANGED beside_service

\* the future is polled for the first time, up to imp.lock().await and, when
\* the lock is free, into handle_command
ServiceLock(t) ==
    LET l == lock(svc.imp, t)
    IN  /\ svc.futures[t].phase = "created"
        /\ svc' = [svc EXCEPT
               !.imp = l.mutex,
               !.futures[t].phase = IF l.acquired THEN "handling" ELSE "waiting",
               !.log = IF l.acquired THEN Append(@, <<"enter", t>>) ELSE @]
        /\ UNCHANGED beside_service

\* a future that waited has been given the lock and is polled again
ServiceWake(t) ==
    /\ svc.futures[t].phase = "waiting"
    /\ svc.imp.holder = t
    /\ svc' = [svc EXCEPT !.futures[t].phase = "handling",
                          !.log = Append(@, <<"enter", t>>)]
    /\ UNCHANGED beside_service

\* handle_command returns or panics; either way the guard is dropped
ServiceReturn(t) ==
    LET data == handle_command(svc.futures[t].command)
    IN  /\ svc.futures[t].phase = "handling"
        /\ svc' = [svc EXCEPT
               !.imp = unlock(@),
               !.futures[t].phase = IF data = "Panic" THEN "panicked" ELSE "ready",
               !.futures[t].data = data,
               !.log = Append(@, <<"leave", t>>)]
        /\ UNCHANGED beside_service

\* the future is dropped before it has completed
ServiceDrop(t) ==
    /\ svc.futures[t].phase \in {"created", "waiting", "handling"}
    /\ svc' = [svc EXCEPT
           !.imp = IF svc.imp.holder = t THEN unlock(@) ELSE leave(@, t),
           !.futures[t].phase = "dropped",
           !.log = IF svc.futures[t].phase = "handling" THEN Append(@, <<"leave", t>>)
                   ELSE @]
    /\ UNCHANGED beside_service

\* the output of a completed future, Ok(CTAP2Response), is made into a message
ServiceRespond(t) ==
    LET f == svc.futures[t]
    IN  /\ f.phase = "ready"
        /\ svc' = [svc EXCEPT
               !.futures[t].phase = "answered",
               !.out = Append(@, <<t, CTAP2ResponseMessage(
                                         CTAP2Response(f.data, f.channel_identifier))>>)]
        /\ UNCHANGED beside_service

----------------------------------------------------------------------------
(* hid/server.rs: CTAPServer, and the task of the CTAP2 service *)

\* Result of write_message's encoding: the reports to send, in order
Written(ok, reports) == [ok |-> ok, reports |-> reports]

write_message_last_first(message) ==
    LET encoded == encode_message(message)
        reports == chunks(encoded.dest, HID_REPORT_SIZE)
    IN  IF encoded.tag = "Ok"
        THEN Written(TRUE, [k \in 1..Len(reports) |-> reports[Len(reports) + 1 - k]])
        ELSE Written(FALSE, <<>>)

\* CTAPServer::write_message up to its loop: buf.chunks_exact(HID_REPORT_SIZE)
write_message(message) ==
    LET encoded == encode_message(message)
        reports == chunks(encoded.dest, HID_REPORT_SIZE)
    IN  IF encoded.tag = "Ok"
        THEN Written(TRUE, SubSeq(reports, 1, Len(reports)))
        ELSE Written(FALSE, <<>>)

\* what handling one report asks of the loop: a message to write, a request
\* to forward to the service, both absent, or a panic
Handled(st, used, res, decoded, write, message, forward, panic) ==
    [state |-> st, used |-> used, result |-> res, decoded |-> decoded,
     write |-> write, message |-> message, forward |-> forward, panic |-> panic]

\* handle_report: the packet is fed to the packet processor and the result
\* translated
handle_report(st, used, packet) ==
    LET out == handle_packet(st, used, packet)
        res == out.result
        decoded == try_from(res.message)
        quiet == Handled(out.state, out.used, res, NoTryFrom, FALSE, NoMessage, FALSE, FALSE)
    IN  CASE res.tag = "Panic" -> [quiet EXCEPT !.panic = TRUE]
          [] res.tag = "Err" ->
               [quiet EXCEPT !.write = TRUE, !.message = ServerErrorMessage(res.err)]
          [] res.tag = "ResponseReady" ->
               [quiet EXCEPT !.write = TRUE, !.message = res.message]
          [] res.tag = "CTAP2Request" ->
               IF decoded.tag = "Ok"
               THEN [quiet EXCEPT !.decoded = decoded, !.forward = TRUE]
               ELSE IF decoded.tag = "Err"
               THEN [quiet EXCEPT
                        !.decoded = decoded, !.write = TRUE,
                        !.message = AuthServiceErrorMessage(
                            AuthServiceError(decoded.err, res.message.channel_identifier))]
               ELSE [quiet EXCEPT !.decoded = decoded, !.panic = TRUE]
          [] OTHER -> quiet

\* CTAPServer::new with a CTAP2 service beside it: the loop is at its select;
\* inbox holds the report the transport has for the loop, requests and
\* responses are the queues between the loop and the service task; writes and
\* sent record the messages given to write_message and the reports sent, and
\* mark how many messages had been written when select last took something
CTAPServer_new ==
    [at |-> "select", stop |-> "None", last |-> "None", arrived |-> 0, inbox |-> <<>>,
     buf |-> <<>>, writes |-> <<>>, sent |-> <<>>, mark |-> 0, decoded |-> NoTryFrom,
     requests |-> <<>>, responses |-> <<>>, service |-> "running"]

\* the loop calls write_message: the reports are sent by ServerSend
BeginWrite(s, message) ==
    LET w == write_message(message)
    IN  IF w.ok
        THEN [s EXCEPT !.at = "writing", !.buf = w.reports, !.writes = Append(@, message)]
        ELSE [s EXCEPT !.at = "stopped", !.stop = "encode"]

\* the transport has a report for the loop
ReportArrives(packet) ==
    /\ srv.at # "stopped"
    /\ srv.inbox = <<>>
    /\ srv.arrived < MaxReports
    /\ srv' = [srv EXCEPT !.inbox = <<packet>>, !.arrived = @ + 1]
    /\ UNCHANGED <<processor, beside_server>>

\* select takes the report: handle_report, up to the first report it sends
ServerReport ==
    /\ srv.at = "select"
    /\ srv.inbox # <<>>
    /\ \E h \in {handle_report(state, chan_alloc, Head(srv.inbox))} :
        \E taken \in {[srv EXCEPT !.inbox = <<>>, !.last = "report",
                                  !.mark = Len(srv.writes),
                                  !.decoded = h.decoded]} :
           /\ pkt' = Head(srv.inbox)
           /\ pre_state' = state
           /\ pre_alloc' = chan_alloc
           /\ state' = h.state
           /\ chan_alloc' = h.used
           /\ result' = h.result
           /\ srv' = IF h.panic
                     THEN [taken EXCEPT !.at = "stopped", !.stop = "panicked"]
                     ELSE IF h.write THEN BeginWrite(taken, h.message)
                     ELSE IF h.forward
                     THEN [taken EXCEPT !.requests = Append(@, h.decoded)]
                     ELSE taken
    /\ UNCHANGED beside_server

\* select takes a response of the service: write_message of its message
ServerResponse ==
    /\ srv.at = "select"
    /\ srv.responses # <<>>
    /\ \E message \in {CTAP2ResponseMessage(Head(srv.responses))} :
          srv' = BeginWrite([srv EXCEPT !.responses = Tail(@), !.last = "response",
                                        !.mark = Len(srv.writes)],
                            message)
    /\ UNCHANGED <<processor, beside_server>>

\* select finds the service task terminated: the loop returns
ServerShutDown ==
    /\ srv.at = "select"
    /\ srv.service = "terminated"
    /\ srv' = [srv EXCEPT !.at = "stopped", !.stop = "service", !.last = "terminated"]
    /\ UNCHANGED <<processor, beside_server>>

\* write_message's loop: the next report is sent to the transport
ServerSend ==
    /\ srv.at = "writing"
    /\ srv' = [srv EXCEPT !.sent = Append(@, Head(srv.buf)), !.buf = Tail(@),
                          !.at = IF Len(srv.buf) = 1 THEN "select" ELSE "writing"]
    /\ UNCHANGED <<processor, beside_server>>

\* the transport fails or ends: receiving or sending returns an error and the
\* loop returns
TransportFails ==
    /\ srv.at # "stopped"
    /\ srv' = [srv EXCEPT !.at = "stopped", !.stop = "transport"]
    /\ UNCHANGED <<processor, beside_server>>

\* the service task takes the next request: CTAP2Service::call to its end
ServiceTask ==
    LET req == Head(srv.requests)
        data == handle_command(req.command)
    IN  /\ srv.service = "running"
        /\ srv.requests # <<>>
        /\ srv' = IF data = "Panic"
                  THEN [srv EXCEPT !.requests = Tail(@), !.service = "terminated"]
                  ELSE [srv EXCEPT
                           !.requests = Tail(@),
                           !.responses = Append(@, CTAP2Response(data,
                                                                 req.channel_identifier))]
        /\ UNCHANGED <<processor, beside_server>>

\* the service task ends
ServiceTerminates ==
    /\ srv.service = "running"
    /\ srv.at # "stopped"
    /\ srv' = [srv EXCEPT !.service = "terminated"]
    /\ UNCHANGED <<processor, beside_server>>

\* the payloads of the CBOR messages sent to the server: none, GetInfo, Reset,
\* GetAssertion, a tag that is no command, and MakeCredential with no
\* parameters, with an empty map and with an integer for parameters
ServerPayloads ==
    {<<>>, <<CTAP_GET_INFO>>, <<CTAP_RESET>>, <<CTAP_GET_ASSERTION>>,
     <<CTAP_GET_ASSERTION + 1>>, <<CTAP_MAKE_CREDENTIAL>>,
     <<CTAP_MAKE_CREDENTIAL>> \o head(5, 0), <<CTAP_MAKE_CREDENTIAL>> \o head(0, 0)}

\* the reports sent to the server: INIT on the broadcast channel, CBOR
\* messages and a PING of two packets on the first channel, a packet on the
\* reserved channel, and a PING of two packets on the broadcast channel
ServerPackets ==
    {InitializationPacket(BROADCAST_CHANNEL, 128 + CMD_INIT, 8,
                          DataField(0, 0, INIT_PACKET_PAYLOAD_SIZE)),
     InitializationPacket(U32(1), 128 + CMD_PING, INIT_PACKET_PAYLOAD_SIZE + 1,
                          DataField(0, 0, INIT_PACKET_PAYLOAD_SIZE)),
     ContinuationPacket(U32(1), 0, DataField(0, 1, CONT_PACKET_PAYLOAD_SIZE)),
     InitializationPacket(RESERVED_CHANNEL, 128 + CMD_PING, 0,
                          DataField(0, 0, INIT_PACKET_PAYLOAD_SIZE)),
     InitializationPacket(BROADCAST_CHANNEL, 128 + CMD_PING, INIT_PACKET_PAYLOAD_SIZE + 1,
                          DataField(0, 0, INIT_PACKET_PAYLOAD_SIZE))}
    \cup {InitializationPacket(U32(1), 128 + CMD_CBOR, Len(p),
                               ZeroPadded(p, INIT_PACKET_PAYLOAD_SIZE)) :
              p \in ServerPayloads}

----------------------------------------------------------------------------
(* A ChannelAllocator called from outside the packet processor *)

\* one call: the operation, free's argument, what allocate returned, the set
\* before the call, and the ids allocate has returned since the last free
AllocatorCall(op, arg, some, ret, pre_used, recent) ==
    [op |-> op, arg |-> arg, some |-> some, ret |-> ret, pre_used |-> pre_used,
     recent |-> recent]

NoAllocatorCall == AllocatorCall("none", RESERVED_CHANNEL, FALSE, RESERVED_CHANNEL, {}, <<>>)

\* the packets given to handle_packet between those calls: INIT and PING
\* messages of one and of two packets, and the first continuation packet
AllocatorPackets ==
    {InitializationPacket(c, b, l, DataField(0, 0, INIT_PACKET_PAYLOAD_SIZE)) :
        c \in Chans, b \in {128 + CMD_INIT, 128 + CMD_PING},
        l \in {8, INIT_PACKET_PAYLOAD_SIZE + 1}}
    \cup {ContinuationPacket(c, 0, DataField(0, 1, CONT_PACKET_PAYLOAD_SIZE)) : c \in Chans}

\* allocate(), while fewer than MaxChannels are allocated
AllocatorAllocate ==
    LET r == allocate(chan_alloc)
    IN  /\ pc = "receive"
        /\ Cardinality(chan_alloc) < MaxChannels
        /\ chan_alloc' = r.used
        /\ alloc_call' = AllocatorCall("allocate", RESERVED_CHANNEL, r.some, r.chan,
                                       chan_alloc, <<>>)
        /\ pc' = "allocator"
        /\ UNCHANGED <<pre_alloc, beside_allocator>>

\* free(chan)
AllocatorFree(chan) ==
    /\ pc = "receive"
    /\ chan_alloc' = free(chan_alloc, chan)
    /\ alloc_call' = AllocatorCall("free", chan, FALSE, RESERVED_CHANNEL, chan_alloc, <<>>)
    /\ pc' = "allocator"
    /\ UNCHANGED <<pre_alloc, beside_allocator>>

\* allocate() of an allocator whose range 1..RangeEnd is small enough to be
\* exhausted; arg keeps the argument of the last free, recent the ids returned
\* since
RangeAllocate ==
    LET r == allocate_in(chan_alloc, U32(RangeEnd))
    IN  /\ pc = "receive"
        /\ chan_alloc' = r.used
        /\ alloc_call' = AllocatorCall("allocate", alloc_call.arg, r.some, r.chan, chan_alloc,
                                       IF r.some THEN Append(alloc_call.recent, r.chan)
                                       ELSE alloc_call.recent)
        /\ pc' = "allocator"
        /\ UNCHANGED <<pre_alloc, beside_allocator>>

\* what free is called with there
RangeChans == {RESERVED_CHANNEL, BROADCAST_CHANNEL} \cup {U32(i) : i \in 1..RangeEnd}

\* the call has returned to its caller; the argument of a free and the ids
\* returned since are remembered
AllocatorReturn ==
    /\ pc = "allocator"
    /\ pc' = "receive"
    /\ alloc_call' = AllocatorCall("none", alloc_call.arg, FALSE, RESERVED_CHANNEL, {},
                                   alloc_call.recent)
    /\ pre_alloc' = chan_alloc
    /\ UNCHANGED <<chan_alloc, beside_allocator>>

----------------------------------------------------------------------------
(* Specifications *)

MainInit ==
    /\ chan_alloc = {}
    /\ state = Idle
    /\ pc = "receive"
    /\ pkt = NoPacket
    /\ result = NoResult
    /\ pre_state = Idle
    /\ pre_alloc = {}

Init ==
    /\ MainInit
    /\ asm = NoDecoder
    /\ asm_in = NoAssembly
    /\ alloc_call = NoAllocatorCall
    /\ conv = NoConversion
    /\ codec = NoCodec
    /\ svc = CTAP2Service_new
    /\ srv = CTAPServer_new
    /\ cbor = NoCbor
    /\ mux = NoMux

\* the caller receives a report and gives its packet to handle_packet; INIT on
\* the broadcast channel is fed while fewer than MaxChannels are allocated
HandleReport(packet) ==
    LET out == handle_packet(state, chan_alloc, packet)
    IN  /\ pc = "receive"
        /\ Allocates(state, packet) => Cardinality(chan_alloc) < MaxChannels
        /\ pkt' = packet
        /\ pre_state' = state
        /\ pre_alloc' = chan_alloc
        /\ state' = out.state
        /\ chan_alloc' = out.used
        /\ result' = out.result
        /\ pc' = IF out.result.tag = "Panic" THEN "panicked" ELSE "write"
        /\ UNCHANGED beside_processing

\* the caller has dealt with the result and waits for the next report
FinishReport ==
    /\ pc = "write"
    /\ pc' = "receive"
    /\ pkt' = NoPacket
    /\ result' = NoResult
    /\ pre_state' = state
    /\ pre_alloc' = chan_alloc
    /\ UNCHANGED <<chan_alloc, state>>
    /\ UNCHANGED beside_processing

Next ==
    \/ \E packet \in Packets : HandleReport(packet)
    \/ FinishReport

Spec == Init /\ [][Next]_vars

AssemblyNext ==
    \/ \E len \in AssemblyLengths, seed \in Seeds : AssemblyNew(len, seed)
    \/ \E q \in {0, 1} : AssemblyContinuation(q)

SpecAssembly == Init /\ [][AssemblyNext]_vars

\* the packet processor given every command
CommandsNext ==
    \/ \E packet \in CommandPackets : HandleReport(packet)
    \/ FinishReport

SpecCommands == Init /\ [][CommandsNext]_vars

\* errors converted into messages: those handle_packet returns, and every
\* variant
ErrorsNext ==
    \/ \E packet \in Packets : HandleReport(packet)
    \/ FinishReport
    \/ \E err \in ServerErrors : ConvertError(err)
    \/ ConvertReturn

SpecErrors == Init /\ [][ErrorsNext]_vars

\* concurrent calls of the CTAP2 service
ServiceNext ==
    \/ \E t \in Callers, command \in CTAP2Commands : ServiceCall(t, command)
    \/ \E t \in Callers : ServiceLock(t)
    \/ \E t \in Callers : ServiceWake(t)
    \/ \E t \in Callers : ServiceReturn(t)
    \/ \E t \in Callers : ServiceDrop(t)

SpecService == Init /\ [][ServiceNext]_vars

\* calls of the CTAP2 service that are polled until they complete
ServiceLiveNext ==
    \/ \E t \in Callers, command \in CTAP2Commands : ServiceCall(t, command)
    \/ \E t \in Callers : ServiceLock(t)
    \/ \E t \in Callers : ServiceWake(t)
    \/ \E t \in Callers : ServiceReturn(t)
    \/ \E t \in Callers : ServiceRespond(t)

SpecServiceLive == Init /\ [][ServiceLiveNext]_vars /\ WF_vars(ServiceLiveNext)

\* make_ordered run once and once more on a tree
OrderedNext ==
    \/ \E value \in Trees : BuildValue(value)
    \/ MakeOrdered
    \/ MakeOrderedAgain

SpecOrdered == Init /\ [][OrderedNext]_vars

\* a keyed record encoded and decoded
KeyedNext ==
    \/ \E foo \in Foos : KeyedEncode(foo)
    \/ KeyedDecode

SpecKeyed == Init /\ [][KeyedNext]_vars

\* the server loop beside the service task
ServerNext ==
    \/ \E packet \in ServerPackets : ReportArrives(packet)
    \/ ServerReport
    \/ ServerResponse
    \/ ServerShutDown
    \/ ServerSend
    \/ TransportFails
    \/ ServiceTask
    \/ ServiceTerminates

SpecServer == Init /\ [][ServerNext]_vars

\* messages encoded and decoded again
CodecNext ==
    \/ \E message \in CodecMessages : CodecEncode(message)
    \/ CodecDecodePacket
    \/ CodecDecode

SpecCodec == Init /\ [][CodecNext]_vars

\* the packet processor's allocator, also called directly
AllocatorNext ==
    \/ AllocatorAllocate
    \/ \E chan \in Chans : AllocatorFree(chan)
    \/ AllocatorReturn
    \/ \E packet \in AllocatorPackets : HandleReport(packet)
    \/ FinishReport

SpecAllocator == Init /\ [][AllocatorNext]_vars

\* an allocator of the range 1..RangeEnd on its own
AllocatorRangeNext ==
    \/ RangeAllocate
    \/ \E chan \in RangeChans : AllocatorFree(chan)
    \/ AllocatorReturn

SpecAllocatorRange == Init /\ [][AllocatorRangeNext]_vars

\* the packets fed to a processor whose allocator has the range 1..RangeEnd:
\* INIT, with a nonce or without, and PING, on the broadcast channel and on
\* the channels of the range
RangePackets ==
    {InitializationPacket(c, b, l, DataField(d, 0, INIT_PACKET_PAYLOAD_SIZE)) :
        c \in RangeChans \ {RESERVED_CHANNEL}, b \in {128 + CMD_INIT, 128 + CMD_PING},
        l \in {0, 8}, d \in Seeds}

\* handle_packet of that processor
RangeReport(packet) ==
    \E out \in {handle_packet_in(state, chan_alloc, packet, U32(RangeEnd))} :
        /\ pc = "receive"
        /\ pkt' = packet
        /\ pre_state' = state
        /\ pre_alloc' = chan_alloc
        /\ state' = out.state
        /\ chan_alloc' = out.used
        /\ result' = out.result
        /\ pc' = IF out.result.tag = "Panic" THEN "panicked" ELSE "write"
        /\ UNCHANGED beside_processing

InitRangeNext ==
    \/ \E packet \in RangePackets : RangeReport(packet)
    \/ FinishReport

SpecInitRange == Init /\ [][InitRangeNext]_vars

\* a MessageDecoder fed the packets of several channels in any order
InterleavedNext ==
    \/ \E c \in MuxChans : \E packet \in MuxPackets(c) : MuxDecodePacket(packet)
    \/ MuxResetChannel

SpecInterleaved == Init /\ [][InterleavedNext]_vars

----------------------------------------------------------------------------
(* Properties.  pkt, result, pre_state and pre_alloc describe the call of       *)
(* handle_packet that has just been made while pc is not "receive".            *)

\* handle_packet has been called on pkt; it has returned unless it panicked
Called == pc \in {"write", "panicked"}
Returned == pc = "write"

\* the packet's channel fails the checks at the entry of handle_packet
PacketChannelInvalid ==
    \/ pkt.channel_identifier = RESERVED_CHANNEL
    \/ (pkt.channel_identifier # BROADCAST_CHANNEL /\ pkt.channel_identifier \notin pre_alloc)

\* the call was made while busy, on a packet of another channel
OnOtherChannelWhileBusy ==
    Called /\ pre_state.busy /\ pkt.channel_identifier # pre_state.chan

\* the call was made while busy, on a packet of the busy channel
OnBusyChannel(kind) ==
    Called /\ pre_state.busy /\ pkt.kind = kind /\ pkt.channel_identifier = pre_state.chan

\* the command of an initialization packet
PacketCommandIs(c) == (pkt.command_identifier % 128) = c

\* C1: the processor is Idle (holding no assembly) or Busy on one allocated
\* channel with that channel's assembly; a handle_packet call made while Busy
\* on A with a packet of another channel returns and leaves the busy channel,
\* its assembly and the allocated set as they were.
C1_BusyPreservedOnOtherChannel ==
    /\ state.busy =>
          /\ state.chan \in chan_alloc
          /\ state.chan \notin {RESERVED_CHANNEL, BROADCAST_CHANNEL}
          /\ state.decoder.channel_identifier = state.chan
    /\ ~state.busy => state.decoder = NoDecoder
    /\ OnOtherChannelWhileBusy =>
          /\ Returned
          /\ state = pre_state
          /\ chan_alloc = pre_alloc

C1_Witness ==
    /\ OnOtherChannelWhileBusy
    /\ pkt.channel_identifier \in pre_alloc
    /\ pkt.kind = "Init"
    /\ pre_state.decoder.remaining_payload_length > 0
    /\ Len(pre_state.decoder.wip_message.payload) = INIT_PACKET_PAYLOAD_SIZE
    /\ state.busy

\* the continuation packet of the last call completed the message in assembly
LastContinuationArrived ==
    /\ OnBusyChannel("Cont")
    /\ LET r == add_continuation_packet(pre_state.decoder, pkt)
       IN  r.ok /\ is_finished(r.decoder)

\* C2: when a continuation packet delivers the last bytes of a message, the
\* processor is Idle when handle_packet returns.
C2_IdleAfterLastContinuation ==
    LastContinuationArrived => (Returned /\ ~state.busy)

\* C3 as stated: while Busy on A every packet on a channel B # A is refused
\* with ChannelBusy{busy=A, new=B}, written as ERROR 0x06 on B.
C3_AnyOtherChannelRefusedBusy ==
    OnOtherChannelWhileBusy =>
        /\ result = Err(ChannelBusy(pre_state.chan, pkt.channel_identifier))
        /\ ServerErrorMessage(result.err) =
               Message(pkt.channel_identifier, OkCommand(CMD_ERROR), <<6>>)

\* C3 amended: while Busy on A every packet on a channel B # A that is the
\* broadcast channel or an allocated one is refused with
\* ChannelBusy{busy=A, new=B}, written as ERROR 0x06 on B.
C3_ValidOtherChannelRefusedBusy ==
    (OnOtherChannelWhileBusy /\ ~PacketChannelInvalid) =>
        /\ result = Err(ChannelBusy(pre_state.chan, pkt.channel_identifier))
        /\ ServerErrorMessage(result.err) =
               Message(pkt.channel_identifier, OkCommand(CMD_ERROR), <<6>>)

C3_Witness ==
    /\ OnOtherChannelWhileBusy
    /\ pkt.channel_identifier \in pre_alloc
    /\ pkt.kind = "Cont"
    /\ result.err.kind = "ChannelBusy"
    /\ result.err.busy_chan # result.err.chan

\* C4: in every state a packet on the reserved channel, or on a channel that
\* is neither broadcast nor allocated, is answered InvalidChannel for that
\* channel, and state, assembly and allocated set stay as they were.
C4_InvalidChannelChangesNothing ==
    (Called /\ PacketChannelInvalid) =>
        /\ Returned
        /\ result = Err(InvalidChannel(pkt.channel_identifier))
        /\ state = pre_state
        /\ chan_alloc = pre_alloc

C4_Witness ==
    /\ Called
    /\ pre_state.busy
    /\ pkt.channel_identifier \notin {RESERVED_CHANNEL, BROADCAST_CHANNEL}
    /\ pkt.channel_identifier \notin pre_alloc
    /\ pkt.kind = "Init"
    /\ result.err.kind = "InvalidChannel"

\* C5: while Busy on C an initialization packet on C with command INIT or
\* CANCEL returns Aborted, which carries no message, and leaves the processor
\* Idle with the assembly gone.
C5_InitOrCancelAborts ==
    (OnBusyChannel("Init") /\ (PacketCommandIs(CMD_INIT) \/ PacketCommandIs(CMD_CANCEL))) =>
        /\ Returned
        /\ result = Aborted
        /\ result.message = NoMessage
        /\ state = Idle
        /\ chan_alloc = pre_alloc

C5_Witness ==
    /\ OnBusyChannel("Init")
    /\ PacketCommandIs(CMD_CANCEL)
    /\ pre_state.decoder.remaining_payload_length > 0
    /\ result.tag = "Aborted"
    /\ ~state.busy

\* C6: an INIT message with an 8-byte nonce on an allocated channel C, with
\* the processor Idle or Busy on C, leaves the processor Idle, allocates
\* nothing and is answered with an INIT reply on C echoing the nonce and
\* carrying C.
C6_InitOnAllocatedChannelReplies ==
    (/\ Called
     /\ pkt.kind = "Init"
     /\ PacketCommandIs(CMD_INIT)
     /\ pkt.payload_length = 8
     /\ pkt.channel_identifier \in pre_alloc
     /\ (pre_state.busy => pre_state.chan = pkt.channel_identifier)) =>
        /\ Returned
        /\ state = Idle
        /\ chan_alloc = pre_alloc
        /\ result.tag = "ResponseReady"
        /\ result.message.channel_identifier = pkt.channel_identifier
        /\ result.message.command = OkCommand(CMD_INIT)
        /\ Len(result.message.payload) = 17
        /\ Take(result.message.payload, 8) = Take(pkt.data, 8)
        /\ SubSeq(result.message.payload, 9, 12) = U32BigEndian(pkt.channel_identifier)

\* C7: while Busy on C a continuation packet on C whose sequence number is not
\* the next expected one fails with UnexpectedSeq{expected, got} on C, written
\* as ERROR 0x04 on C, and the processor is Idle afterwards.
C7_WrongSequenceIsUnexpectedSeq ==
    (OnBusyChannel("Cont") /\ pkt.packet_sequence # pre_state.decoder.next_seq_num) =>
        /\ Returned
        /\ result = Err(UnexpectedSeq(pre_state.decoder.next_seq_num, pkt.packet_sequence,
                                      pkt.channel_identifier))
        /\ ServerErrorMessage(result.err) =
               Message(pkt.channel_identifier, OkCommand(CMD_ERROR), <<4>>)
        /\ state = Idle

\* ceil(max(0, L - 57) / 59)
ContinuationsNeeded(L) ==
    IF L <= 57 THEN 0 ELSE ((L - 57) + 58) \div 59

\* C8: for a declared length L <= MAX_PAYLOAD, an initialization packet followed
\* by continuation packets numbered 0, 1, 2, ... is accepted without error, is
\* complete exactly when ceil(max(0, L-57)/59) continuations have arrived, and
\* the payload is the first L bytes of the packets' data fields in order.
C8_LegitimateStreamAssembles ==
    (/\ asm_in.phase # "none"
     /\ asm_in.legit
     /\ asm_in.len <= 7609) =>
        /\ asm_in.phase = "open"
        /\ asm_in.conts <= ContinuationsNeeded(asm_in.len)
        /\ is_finished(asm) <=> (asm_in.conts = ContinuationsNeeded(asm_in.len))
        /\ asm.wip_some
        /\ asm.wip_message.payload =
               Take(asm_in.fed, Min(Len(asm_in.fed), asm_in.len))
        /\ is_finished(asm) =>
              /\ try_finish(asm).some
              /\ try_finish(asm).message.payload = Take(asm_in.fed, asm_in.len)

C8_Witness ==
    /\ asm_in.phase = "open"
    /\ asm_in.legit
    /\ asm_in.len = 7609
    /\ asm_in.conts = 128
    /\ is_finished(asm)
    /\ Len(asm.wip_message.payload) = 7609

\* an initialization packet was handled while Idle
InitializationWhileIdle == Called /\ ~pre_state.busy /\ pkt.kind = "Init"

\* C9 as stated: while Idle an initialization packet with a complete message
\* leaves the processor Idle; with an incomplete message the processor becomes
\* Busy on the packet's channel and returns WaitingForMorePackets.
C9_CompleteIdleElseBusy ==
    InitializationWhileIdle =>
        IF pkt.payload_length <= 57
        THEN Returned /\ state = Idle
        ELSE /\ Returned
             /\ state.busy
             /\ state.chan = pkt.channel_identifier
             /\ result = WaitingForMorePackets

\* C9 amended: while Idle an initialization packet with a complete message
\* leaves the processor Idle whatever the result; with an incomplete message of
\* declared length at most MAX_PAYLOAD on an allocated channel the processor
\* becomes Busy on the packet's channel, holding the packet's data as the
\* partial payload, and returns WaitingForMorePackets.
C9_CompleteIdleElseBusyOnAllocated ==
    InitializationWhileIdle =>
        /\ pkt.payload_length <= 57 =>
              /\ Returned
              /\ state = Idle
              /\ result.tag \in {"ResponseReady", "CTAP2Request", "Err"}
        /\ (/\ pkt.payload_length > 57
            /\ pkt.payload_length <= 7609
            /\ pkt.channel_identifier \in pre_alloc) =>
              /\ Returned
              /\ state.busy
              /\ state.chan = pkt.channel_identifier
              /\ state.decoder.wip_message.payload = pkt.data
              /\ state.decoder.remaining_payload_length = pkt.payload_length - 57
              /\ state.decoder.next_seq_num = 0
              /\ result = WaitingForMorePackets

C9_Witness ==
    /\ InitializationWhileIdle
    /\ pkt.payload_length = 57
    /\ pkt.channel_identifier \in pre_alloc
    /\ PacketCommandIs(CMD_MSG)
    /\ result.err.kind = "InvalidCommand"
    /\ state = Idle

\* an INIT message with an 8-byte nonce was handled on the broadcast channel
\* while Idle
BroadcastInit == Called /\ Allocates(pre_state, pkt)

\* C10: while Idle an INIT message with an 8-byte nonce on the broadcast
\* channel allocates exactly one new id cid and yields a response on the
\* broadcast channel with command INIT and the 17-byte payload
\* nonce | cid big-endian | 2 | 0 | 0 | 0 | 0x0C; cid is then allocated and the
\* processor Idle.
C10_BroadcastInitAllocates ==
    BroadcastInit =>
        /\ Returned
        /\ state = Idle
        /\ pre_alloc \subseteq chan_alloc
        /\ Cardinality(chan_alloc \ pre_alloc) = 1
        /\ result.tag = "ResponseReady"
        /\ result.message.channel_identifier = BROADCAST_CHANNEL
        /\ result.message.command = OkCommand(6)
        /\ LET cid == CHOOSE c \in chan_alloc \ pre_alloc : TRUE
               p == result.message.payload
           IN  /\ cid \notin {RESERVED_CHANNEL, BROADCAST_CHANNEL}
               /\ is_allocated(chan_alloc, cid)
               /\ Len(p) = 17
               /\ Take(p, 8) = Take(pkt.data, 8)
               /\ \A i \in 9..12 : p[i] \in 0..255
               /\ p[9] * 256 + p[10] = cid[1]
               /\ p[11] * 256 + p[12] = cid[2]
               /\ SubSeq(p, 13, 17) = <<2, 0, 0, 0, 12>>

C10_Witness ==
    /\ BroadcastInit
    /\ pre_alloc = {U32(1)}
    /\ chan_alloc = {U32(1), U32(2)}
    /\ result.message.payload[12] = 2
    /\ state = Idle

----------------------------------------------------------------------------
\* the id that the last handle_packet call, an INIT on the broadcast channel,
\* got from allocate
InitAllocated == chan_alloc \ pre_alloc

\* C11: whatever allocate, free and handle_packet calls have been made, the
\* allocated set holds neither 0 nor 0xFFFFFFFF, is_allocated(0xFFFFFFFF) is
\* false, and no allocate call, made directly or by handle_packet for an INIT,
\* has returned 0 or 0xFFFFFFFF.
C11_ReservedAndBroadcastNeverAllocated ==
    /\ RESERVED_CHANNEL \notin chan_alloc
    /\ BROADCAST_CHANNEL \notin chan_alloc
    /\ ~is_allocated(chan_alloc, BROADCAST_CHANNEL)
    /\ (alloc_call.op = "allocate" /\ alloc_call.some) =>
           (alloc_call.ret \notin {RESERVED_CHANNEL, BROADCAST_CHANNEL}
            /\ chan_alloc = alloc_call.pre_used \cup {alloc_call.ret})
    /\ (Called /\ result.tag = "ResponseReady" /\ BroadcastInit) =>
           \E c \in InitAllocated :
               /\ c \notin {RESERVED_CHANNEL, BROADCAST_CHANNEL}
               /\ SubSeq(result.message.payload, 9, 12) = U32BigEndian(c)

\* allocate is called after a free has left a hole below an allocated id, with
\* the packet processor in the middle of a message
C11_Witness ==
    /\ alloc_call.op = "allocate"
    /\ alloc_call.some
    /\ alloc_call.pre_used = {U32(2)}
    /\ state.busy

----------------------------------------------------------------------------
\* the values of the allocator's range 1..RangeEnd not in a set
Unallocated(used) == {i \in 1..(RangeEnd - 1) : U32(i) \notin used}

\* C12: allocate returns the lowest value of its range that is not allocated
\* and marks it allocated, and nothing else changes; the ids returned by
\* allocate calls with no free between them are distinct; when every value of
\* the range is allocated, allocate returns none and leaves the set unchanged.
\* (After free(x) an allocate may return x again: C12_Witness.)
C12_AllocateLowestUnused ==
    /\ alloc_call.op = "allocate" =>
           IF Unallocated(alloc_call.pre_used) = {}
           THEN ~alloc_call.some /\ chan_alloc = alloc_call.pre_used
           ELSE /\ alloc_call.some
                /\ \E i \in Unallocated(alloc_call.pre_used) :
                       /\ \A j \in Unallocated(alloc_call.pre_used) : i <= j
                       /\ alloc_call.ret = U32(i)
                /\ alloc_call.ret \notin alloc_call.pre_used
                /\ chan_alloc = alloc_call.pre_used \cup {alloc_call.ret}
    /\ \A m, n \in 1..Len(alloc_call.recent) :
           m # n => alloc_call.recent[m] # alloc_call.recent[n]

\* every id was allocated, one that is not the highest was freed, the next
\* allocate returned it again, and the allocate after that returned none
C12_Witness ==
    /\ alloc_call.op = "allocate"
    /\ ~alloc_call.some
    /\ alloc_call.recent = <<alloc_call.arg>>
    /\ alloc_call.arg = U32(2)

----------------------------------------------------------------------------
\* C13: an initialization packet on the broadcast channel whose command is not
\* INIT, whatever length it declares, given to an Idle processor, fails with
\* InvalidChannel and leaves the processor Idle and the allocated set unchanged.
C13_BroadcastOnlyForInit ==
    (/\ Called
     /\ ~pre_state.busy
     /\ pkt.kind = "Init"
     /\ pkt.channel_identifier = BROADCAST_CHANNEL
     /\ get_command_type(pkt) # OkCommand(CMD_INIT))
    => (/\ Returned
        /\ result = Err(InvalidChannel(BROADCAST_CHANNEL))
        /\ state = Idle
        /\ chan_alloc = pre_alloc)

----------------------------------------------------------------------------
\* the last handle_packet call was given the packet that completes a message:
\* an initialization packet that holds all of it, given while Idle on a channel
\* that passes the entry checks, or the continuation packet with its last bytes
SinglePacketMessage ==
    /\ InitializationWhileIdle
    /\ ~PacketChannelInvalid
    /\ pkt.payload_length <= INIT_PACKET_PAYLOAD_SIZE

MessageCompleted == SinglePacketMessage \/ LastContinuationArrived

\* that message, as it was sent: channel, command, and the declared number of
\* bytes of the data fields in order
CompletedMessage ==
    IF SinglePacketMessage
    THEN Message(pkt.channel_identifier, get_command_type(pkt),
                 Take(pkt.data, pkt.payload_length))
    ELSE Message(pre_state.chan, pre_state.decoder.wip_message.command,
                 pre_state.decoder.wip_message.payload
                     \o Take(pkt.data, pre_state.decoder.remaining_payload_length))

\* C14: a complete PING message on an allocated channel, in one packet or
\* reassembled from several, yields ResponseReady with a message on the same
\* channel, with command PING and the request's payload byte for byte.
C14_PingEchoed ==
    (/\ MessageCompleted
     /\ CompletedMessage.command = OkCommand(CMD_PING)
     /\ CompletedMessage.channel_identifier \in pre_alloc)
    => (/\ Returned
        /\ result.tag = "ResponseReady"
        /\ result.message.channel_identifier = CompletedMessage.channel_identifier
        /\ result.message.command = OkCommand(CMD_PING)
        /\ result.message.payload = CompletedMessage.payload)

\* a PING of 117 bytes, reassembled from three packets, has been echoed
C14_Witness ==
    /\ LastContinuationArrived
    /\ pkt.packet_sequence = 1
    /\ result.tag = "ResponseReady"
    /\ result.message.command = OkCommand(CMD_PING)
    /\ Len(result.message.payload) =
           INIT_PACKET_PAYLOAD_SIZE + CONT_PACKET_PAYLOAD_SIZE + 1
    /\ SubSeq(result.message.payload, 1, INIT_PACKET_PAYLOAD_SIZE)
           \in {DataField(d, 0, INIT_PACKET_PAYLOAD_SIZE) : d \in Seeds}

\* C15: a complete CBOR message yields CTAP2Request carrying the message
\* unchanged (channel, command, payload); the call returns no response
\* message and allocates no channel.
C15_CborForwarded ==
    (MessageCompleted /\ CompletedMessage.command = OkCommand(CMD_CBOR))
    => (/\ Returned
        /\ result = CTAP2Request(CompletedMessage)
        /\ result.tag # "ResponseReady"
        /\ chan_alloc = pre_alloc)

\* a CBOR message of 58 bytes, reassembled from two packets, has been forwarded
C15_Witness ==
    /\ LastContinuationArrived
    /\ result.tag = "CTAP2Request"
    /\ result.message.command = OkCommand(CMD_CBOR)
    /\ Len(result.message.payload) = INIT_PACKET_PAYLOAD_SIZE + 1
    /\ result.message.channel_identifier = U32(2)

----------------------------------------------------------------------------
\* the commands process_message answers, or aborts for: PING, INIT, CBOR, CANCEL
HandledCommands == {CMD_PING, CMD_INIT, CMD_CBOR, CMD_CANCEL}

\* C16: a complete message whose command is MSG, WINK, LOCK, ERROR or
\* KEEPALIVE, or whose command byte is outside the allowed set (the vendor
\* range 0x40..0x7F included), fails with InvalidCommand on the message's
\* channel, which is written as an ERROR message with the one byte 0x01 on
\* that channel; no channel is allocated.
C16_UnsupportedCommandRefused ==
    (/\ MessageCompleted
     /\ \/ CompletedMessage.command.tag # "Ok"
        \/ CompletedMessage.command.byte \in
               {CMD_MSG, CMD_WINK, CMD_LOCK, CMD_ERROR, CMD_KEEPALIVE}
        \/ (SinglePacketMessage /\ (pkt.command_identifier % 128) \notin HandledCommands))
    => (/\ Returned
        /\ result.tag = "Err"
        /\ result.err.kind = "InvalidCommand"
        /\ result.err.chan = CompletedMessage.channel_identifier
        /\ ServerErrorMessage(result.err) =
               Message(CompletedMessage.channel_identifier, OkCommand(CMD_ERROR),
                       <<ERR_INVALID_CMD>>)
        /\ chan_alloc = pre_alloc)

\* a message with the last vendor command, reassembled from two packets on an
\* allocated channel, has been refused
C16_Witness ==
    /\ LastContinuationArrived
    /\ CompletedMessage.command = UnsupportedVendor(CTAPHID_VENDOR_LAST)
    /\ CompletedMessage.channel_identifier = U32(1)
    /\ result.tag = "Err"
    /\ result.err.kind = "InvalidCommand"

----------------------------------------------------------------------------
\* the error code the claim gives for each kind of error
ClaimedErrorCode(kind) ==
    CASE kind = "UnexpectedSeq" -> 4
      [] kind = "UnexpectedInit" -> 127
      [] kind = "UnexpectedCont" -> 127
      [] kind = "InvalidPayloadLength" -> 3
      [] kind = "InvalidCommand" -> 1
      [] kind = "InvalidParameter" -> 2
      [] kind = "ChannelBusy" -> 6
      [] kind = "InvalidChannel" -> 11
      [] kind = "Other" -> 127
      [] kind = "IoError" -> 127

\* C17: every ServerError is converted into one message with command ERROR
\* (0x3F) and a one-byte payload, the code the claim lists for its kind, on the
\* channel the error names (the new channel for ChannelBusy; the broadcast
\* channel for an IoError, which names none); and the channel named by an error
\* that handle_packet returns is the channel of the packet it was given.
C17_ErrorsWrittenAsErrorMessages ==
    /\ conv.err.kind # "None" =>
           conv.message =
               Message(IF conv.err.kind = "IoError" THEN BROADCAST_CHANNEL ELSE conv.err.chan,
                       OkCommand(63), <<ClaimedErrorCode(conv.err.kind)>>)
    /\ (Called /\ result.tag = "Err") =>
           ServerErrorMessage(result.err) =
               Message(pkt.channel_identifier, OkCommand(63),
                       <<ClaimedErrorCode(result.err.kind)>>)

\* ChannelBusy{busy 1, new broadcast} has been converted while the processor is
\* Busy on channel 1
C17_Witness ==
    /\ pc = "converted"
    /\ conv.err = ChannelBusy(U32(1), BROADCAST_CHANNEL)
    /\ conv.message.channel_identifier = BROADCAST_CHANNEL
    /\ state.busy
    /\ state.chan = U32(1)

----------------------------------------------------------------------------
\* the k-th report of the encoding
Report(k) ==
    SubSeq(codec.encoded.dest, (k - 1) * HID_REPORT_SIZE + 1, k * HID_REPORT_SIZE)

\* C18: the reports of encode(m), given in order to a new decoder, yield m
\* once, on the call that takes the last report and on none before it; no call
\* fails; when all reports are taken the decoder holds no state for any
\* channel, and a further decode yields nothing.
C18_DecodeOfEncodeIsMessage ==
    codec.phase = "encoded" =>
        LET end == Len(codec.encoded.dest)
        IN  /\ \A k \in 1..Len(codec.out) :
                   /\ codec.out[k].tag # "Err"
                   /\ codec.out[k].tag = "Some" <=>
                          (/\ codec.out[k].pos = end
                           /\ (k > 1 => codec.out[k - 1].pos < end))
                   /\ codec.out[k].tag = "Some" => codec.out[k].message = codec.message
            /\ codec.pos = end =>
                   (/\ DOMAIN codec.chan_packets = {}
                    /\ Len(codec.out) >= 1)
            /\ (0 < codec.pos /\ codec.pos < end) =>
                   DOMAIN codec.chan_packets = {codec.message.channel_identifier}

\* a message of MAX_PAYLOAD bytes: 128 decode_packet calls returned nothing, the
\* 129th the message, and a decode after it nothing
C18_Witness ==
    /\ codec.phase = "encoded"
    /\ Len(codec.message.payload) = MAX_MESSAGE_PAYLOAD_SIZE
    /\ Len(codec.out) = MAX_SEQ_NUM + 3
    /\ codec.out[MAX_SEQ_NUM + 1].tag = "None"
    /\ codec.out[MAX_SEQ_NUM + 2].tag = "Some"
    /\ codec.out[MAX_SEQ_NUM + 3].tag = "None"

\* C19: for a message with a valid command and L <= MAX_PAYLOAD payload bytes
\* encode_message writes 1 + ceil(max(0, L - 57) / 59) reports of 64 bytes: an
\* initialization packet (channel big-endian, command with bit 7 set, L
\* big-endian, the first bytes of the payload) and continuation packets
\* numbered 0, 1, 2, ... (channel, number, the next 59 bytes), every data field
\* filled up with zeros; for L > MAX_PAYLOAD it fails with PayloadTooLarge and
\* writes nothing.  (Stated of the state encode_message returns in; the decoder
\* does not change what was encoded.)
C19_EncodedReports ==
    (codec.phase # "none" /\ codec.out = <<>>) =>
        LET m == codec.message
            L == Len(m.payload)
            dest == codec.encoded.dest
            conts == IF L > 57 THEN (L - 57 + 58) \div 59 ELSE 0
            chan == U32BigEndian(m.channel_identifier)
            \* byte j of the payload, counted from 0, or the zero after its end
            data(j) == IF j < L THEN m.payload[j + 1] ELSE 0
            \* byte o, counted from 0, of report r, counted from 0
            byte(r, o) ==
                IF o < 4 THEN chan[o + 1]
                ELSE IF r = 0
                THEN CASE o = 4 -> 128 + m.command.byte
                       [] o = 5 -> L \div 256
                       [] o = 6 -> L % 256
                       [] OTHER -> data(o - 7)
                ELSE IF o = 4 THEN r - 1
                ELSE data(57 + 59 * (r - 1) + (o - 5))
        IN  IF L > 7609
            THEN /\ codec.encoded.tag = "PayloadTooLarge"
                 /\ codec.encoded.got = L
                 /\ codec.encoded.max = 7609
                 /\ dest = <<>>
            ELSE /\ codec.encoded.tag = "Ok"
                 /\ dest = [i \in 1..(64 * (1 + conts)) |->
                               byte((i - 1) \div 64, (i - 1) % 64)]

\* a message of 180 bytes has been encoded as four reports, the last with five
\* payload bytes and 54 zeros
C19_Witness ==
    /\ codec.phase = "encoded"
    /\ codec.out = <<>>
    /\ Len(codec.message.payload) = 180
    /\ Len(codec.encoded.dest) = 256
    /\ Report(4)[5] = 2
    /\ SubSeq(Report(4), 11, 64) = Zeros(54)
    /\ codec.message.channel_identifier = <<4660, 22136>>
    /\ SubSeq(Report(4), 1, 4) = <<18, 52, 86, 120>>

----------------------------------------------------------------------------
\* the futures that are inside handle_command
Handling == {t \in Callers : svc.futures[t].phase = "handling"}

\* C20: at most one future is inside handle_command at any time, and it holds
\* the lock; handle_command is entered only when every earlier entry has been
\* left (entries and exits alternate, each exit by the future that entered);
\* every other future that has called lock and not been given it is in the
\* queue of waiters, and none of them has an output.
C20_OneRequestAtATime ==
    /\ Cardinality(Handling) <= 1
    /\ \A t \in Handling : svc.imp.holder = t
    /\ \A i \in 1..Len(svc.log) :
           IF i % 2 = 1
           THEN svc.log[i][1] = "enter"
           ELSE svc.log[i] = <<"leave", svc.log[i - 1][2]>>
    /\ Len(svc.log) % 2 = 1 <=> Handling # {}
    /\ \A t \in Callers :
           svc.futures[t].phase = "waiting" =>
               /\ svc.futures[t].data = "None"
               /\ \/ svc.imp.holder = t
                  \/ \E k \in 1..Len(svc.imp.waiters) : svc.imp.waiters[k] = t

\* one request has been handled, another is being handled, a third waits
C20_Witness ==
    /\ Len(svc.log) = 3
    /\ Handling # {}
    /\ Len(svc.imp.waiters) = 1
    /\ \E t \in Callers : svc.futures[t].phase = "ready"

----------------------------------------------------------------------------
\* the messages made of the outputs of future t
OutcomesOf(t) == {i \in 1..Len(svc.out) : svc.out[i][1] = t}

\* C21: every request passed to call leads to exactly one outcome, and the
\* message made of it is a CBOR message on the channel of that request.
C21_EveryCallAnswered ==
    \A t \in Callers :
        (svc.futures[t].phase = "created") ~>
            /\ Cardinality(OutcomesOf(t)) = 1
            /\ \A i \in OutcomesOf(t) :
                   /\ svc.out[i][2].channel_identifier = svc.futures[t].channel_identifier
                   /\ svc.out[i][2].command = OkCommand(CMD_CBOR)

----------------------------------------------------------------------------
RECURSIVE encodings(_)
\* the encodings of a sequence of messages, one after the other
encodings(messages) ==
    IF messages = <<>> THEN <<>>
    ELSE encode_message(Head(messages)).dest \o encodings(Tail(messages))

\* C22: the reports of one outbound message are sent in order and with no
\* report of another message between them, whatever reports arrive and
\* whatever the service answers meanwhile: the reports sent, followed by those
\* the message being written still has to send, are the encodings of the
\* messages written, in the order they were written.
C22_ChunksContiguous ==
    /\ concat(srv.sent \o srv.buf) = encodings(srv.writes)
    /\ \A k \in 1..Len(srv.sent) : Len(srv.sent[k]) = HID_REPORT_SIZE
    /\ srv.at = "select" => srv.buf = <<>>

\* a message of two reports is half sent, after other messages, while a
\* response of the service waits for the loop
C22_Witness ==
    /\ srv.at = "writing"
    /\ Len(srv.buf) = 1
    /\ Len(srv.writes) > 1
    /\ Len(encode_message(srv.writes[Len(srv.writes)]).dest) = 2 * HID_REPORT_SIZE
    /\ srv.responses # <<>>

----------------------------------------------------------------------------
\* C23: the loop stops only when the transport fails or ends or when the
\* service task has terminated, so no sequence of reports makes it stop; and
\* a report that yields a ServerError has exactly one message written for it,
\* the error message of that error, with the loop going on.
C23_ReportsNeverStopLoop ==
    /\ srv.at = "stopped" => srv.stop \in {"transport", "service"}
    /\ (srv.last = "report" /\ result.tag = "Err") =>
           /\ Len(srv.writes) = srv.mark + 1
           /\ srv.writes[Len(srv.writes)] = ServerErrorMessage(result.err)
           /\ srv.decoded = NoTryFrom

----------------------------------------------------------------------------
\* the last report taken by the loop completed a CBOR message
RequestTaken == srv.last = "report" /\ result.tag = "CTAP2Request"

\* for what it took last the loop wrote one message, a CBOR message of the one
\* byte status on the channel of the request, and forwarded nothing to the
\* service
AnsweredWith(status) ==
    /\ srv.decoded.tag = "Err"
    /\ srv.stop # "panicked"
    /\ Len(srv.writes) = srv.mark + 1
    /\ srv.writes[Len(srv.writes)].command = OkCommand(CMD_CBOR)
    /\ srv.writes[Len(srv.writes)].channel_identifier = result.message.channel_identifier
    /\ srv.writes[Len(srv.writes)].payload = <<status>>

\* C24: a CBOR message whose first payload byte is a tag that is not routed,
\* be it no command at all or a command other than GetInfo, MakeCredential and
\* Reset, is answered with a CBOR message on the same channel whose payload is
\* the one status byte InvalidCommand, and nothing is forwarded to the service.
C24_UnroutedTagInvalidCommand ==
    (/\ RequestTaken
     /\ result.message.payload # <<>>
     /\ result.message.payload[1] \notin {CTAP_GET_INFO, CTAP_MAKE_CREDENTIAL, CTAP_RESET})
        => AnsweredWith(Ctap1ErrInvalidCommand)

----------------------------------------------------------------------------
\* C26: make_ordered is idempotent on trees whose maps have integer keys
\* only or text keys only: run on its own result it changes nothing.
C26_Idempotent ==
    cbor.phase = "again" => cbor.again = cbor.ordered /\ cbor.ordered # Panicked

\* make_ordered has run twice on a map that holds maps in an array and under
\* a tag, and the first run has changed it
C26_Witness ==
    /\ cbor.phase = "again"
    /\ cbor.value.kind = "Map"
    /\ Len(cbor.value.entries) = 2
    /\ cbor.value.entries[1][2].kind = "Array"
    /\ cbor.value.entries[1][2].items[1].entries # <<>>
    /\ cbor.ordered # cbor.value

\* a is less than b bytewise; a proper prefix is less
bytes_less(a, b) ==
    \E i \in 1..(Len(a) + 1) :
        /\ i <= Len(b)
        /\ \A j \in 1..(i - 1) : a[j] = b[j]
        /\ i = Len(a) + 1 \/ a[i] < b[i]

\* key k1 is to stand before key k2 in a map
key_before(k1, k2) ==
    \/ k1.kind = "Integer" /\ k2.kind = "Integer" /\ k1.n < k2.n
    \/ /\ k1.kind = "Text" /\ k2.kind = "Text"
       /\ \/ Len(k1.text) < Len(k2.text)
          \/ Len(k1.text) = Len(k2.text) /\ bytes_less(k1.text, k2.text)

RECURSIVE all_ordered(_)
\* every map of the tree, however deep, has each key before the next one
all_ordered(value) ==
    CASE value.kind \in {"Tag", "Array"} ->
           \A i \in 1..Len(value.items) : all_ordered(value.items[i])
      [] value.kind = "Map" ->
           /\ \A i \in 1..(Len(value.entries) - 1) :
                  key_before(value.entries[i][1], value.entries[i + 1][1])
           /\ \A i \in 1..Len(value.entries) :
                  all_ordered(value.entries[i][1]) /\ all_ordered(value.entries[i][2])
      [] OTHER -> TRUE

RECURSIVE same_entries(_, _)
\* tree b is tree a but for the order of the entries of its maps: every key
\* of a map is in the other with the same value, and no entry more
same_entries(a, b) ==
    /\ a.kind = b.kind
    /\ a.n = b.n
    /\ a.text = b.text
    /\ Len(a.items) = Len(b.items)
    /\ \A i \in 1..Len(a.items) : same_entries(a.items[i], b.items[i])
    /\ Len(a.entries) = Len(b.entries)
    /\ \A i \in 1..Len(a.entries) :
           \E j \in 1..Len(b.entries) :
               /\ same_entries(a.entries[i][1], b.entries[j][1])
               /\ same_entries(a.entries[i][2], b.entries[j][2])
    /\ \A j \in 1..Len(b.entries) :
           \E i \in 1..Len(a.entries) :
               /\ same_entries(a.entries[i][1], b.entries[j][1])
               /\ same_entries(a.entries[i][2], b.entries[j][2])

\* C27: after make_ordered every map of the tree, at every depth, in the
\* values of maps, in arrays and under tags, has its integer keys strictly
\* ascending or its text keys ordered by length and then bytewise; every key
\* keeps its value, and no entry is added or lost.
C27_EveryMapOrdered ==
    cbor.phase \in {"ordered", "again"} =>
        /\ cbor.ordered # Panicked
        /\ all_ordered(cbor.ordered)
        /\ same_entries(cbor.value, cbor.ordered)

\* make_ordered has reordered a map of text keys of two lengths that lies in
\* an array under a tag in a value of a map, and the map around it
C27_Witness ==
    /\ cbor.phase = "ordered"
    /\ cbor.value.kind = "Map"
    /\ Len(cbor.value.entries) = 2
    /\ cbor.value.entries[1][2].kind = "Tag"
    /\ cbor.value.entries[1][2].items[1].items[1].entries
           # cbor.ordered.entries[2][2].items[1].items[1].entries
    /\ Len(cbor.value.entries[1][2].items[1].items[1].entries) = MaxEntries
    /\ cbor.ordered.entries[1] = cbor.value.entries[2]

----------------------------------------------------------------------------
\* C28: a keyed record that is encoded and then decoded is the record that
\* was encoded, keyed records nested in it included.
C28_KeyedRoundTrip ==
    cbor.phase = "decoded" => cbor.decoded = Deserialized("Ok", cbor.record)

----------------------------------------------------------------------------
\* C29: handle_packet never panics: the assertion of begin_transaction, that
\* a message waiting for continuation packets is on neither the reserved nor
\* the broadcast channel, holds whenever it is reached, and so do the
\* assertions that the busy channel is the channel of the packet.
C29_HandlePacketNeverPanics == pc # "panicked" /\ result.tag # "Panic"

----------------------------------------------------------------------------
\* C30: the set of allocated channels changes only when an INIT on the
\* broadcast channel succeeds, which adds exactly one id to it; nothing takes
\* an id out of it, so a packet on a channel that has been allocated is never
\* answered InvalidChannel.
C30_AllocatedOnlyGrows ==
    /\ pre_alloc \subseteq chan_alloc
    /\ chan_alloc # pre_alloc =>
           /\ Cardinality(chan_alloc \ pre_alloc) = 1
           /\ pkt.kind = "Init"
           /\ pkt.channel_identifier = BROADCAST_CHANNEL
           /\ get_command_type(pkt) = OkCommand(CMD_INIT)
           /\ result.tag = "ResponseReady"
    /\ (result.tag = "Err" /\ result.err.kind = "InvalidChannel") =>
           result.err.chan \notin chan_alloc

\* every channel the bound allows has been allocated, and a message on one of
\* them has been answered since
C30_Witness ==
    /\ Cardinality(chan_alloc) = MaxChannels
    /\ pre_alloc = chan_alloc
    /\ pkt.channel_identifier \in chan_alloc
    /\ result.tag = "ResponseReady"

----------------------------------------------------------------------------
\* the message can be encoded for the transport
Encodable(message) ==
    /\ message.command.tag = "Ok"
    /\ Len(message.payload) <= MAX_MESSAGE_PAYLOAD_SIZE
    /\ encode_message(message).tag = "Ok"

\* C31: every message the packet processor returns as ResponseReady and every
\* ERROR message made of a ServerError it returns has a valid command and a
\* payload of at most MAX_MESSAGE_PAYLOAD_SIZE bytes, so encode_message
\* neither fails with PayloadTooLarge nor panics on it.
C31_ResponsesEncodable ==
    /\ result.tag = "ResponseReady" => Encodable(result.message)
    /\ result.tag = "Err" => Encodable(ServerErrorMessage(result.err))

\* a response of more than one packet has been returned, after an error
C31_Witness ==
    /\ result.tag = "ResponseReady"
    /\ Len(result.message.payload) > INIT_PACKET_PAYLOAD_SIZE
    /\ pre_state.busy

----------------------------------------------------------------------------
\* the continuation packets the assembly has accepted: all that were given to
\* it but the one it refused, if it refused one
ContinuationsAccepted ==
    IF asm_in.phase = "open" THEN asm_in.conts ELSE asm_in.conts - 1

----------------------------------------------------------------------------
\* an initialization packet that neither starts over nor cancels was handled
\* while the processor was Busy on the channel of the packet
OtherInitializationWhileBusy ==
    /\ Called
    /\ pre_state.busy
    /\ pkt.kind = "Init"
    /\ pkt.channel_identifier = pre_state.chan
    /\ get_command_type(pkt) \notin {OkCommand(CMD_INIT), OkCommand(CMD_CANCEL)}

\* C33: while the processor is Busy on channel C an initialization packet on
\* C whose command is neither INIT nor CANCEL is refused with ChannelBusy,
\* busy and new channel both C, and is ignored: the processor stays Busy on C
\* and its assembly is as it was.
C33_OtherInitializationRefused ==
    OtherInitializationWhileBusy =>
        /\ result = Err(ChannelBusy(pre_state.chan, pre_state.chan))
        /\ state = pre_state
        /\ state.busy
        /\ chan_alloc = pre_alloc

\* the packet was refused between the continuation packets of a message
C33_Witness ==
    /\ OtherInitializationWhileBusy
    /\ pre_state.decoder.next_seq_num > 0
    /\ pre_state.decoder.remaining_payload_length > 0


----------------------------------------------------------------------------
\* a packet was handled while the processor was Idle
HandledWhileIdle == Called /\ ~pre_state.busy

\* C34: an error raised while the processor is Idle leaves it Idle, with no
\* assembly, and leaves the allocated set as it was; a continuation packet on
\* an allocated channel is answered UnexpectedCont on that channel, and an
\* initialization packet declaring more than MAX_MESSAGE_PAYLOAD_SIZE bytes
\* is answered InvalidPayloadLength on its channel.
C34_IdleErrorsStayIdle ==
    HandledWhileIdle =>
        /\ result.tag = "Err" =>
               /\ state = Idle
               /\ ~state.decoder.wip_some
               /\ chan_alloc = pre_alloc
        /\ (pkt.kind = "Cont" /\ pkt.channel_identifier \in pre_alloc) =>
               result = Err(UnexpectedCont(pkt.channel_identifier))
        /\ (/\ pkt.kind = "Init"
            /\ ~invalid_channel(pre_alloc, pkt.channel_identifier)
            /\ pkt.payload_length > MAX_MESSAGE_PAYLOAD_SIZE) =>
               result = Err(InvalidPayloadLength(pkt.channel_identifier,
                                                 pkt.payload_length))

\* an oversized initialization packet on an allocated channel was refused
C34_Witness ==
    /\ HandledWhileIdle
    /\ pkt.kind = "Init"
    /\ pkt.channel_identifier \in pre_alloc
    /\ pkt.payload_length > MAX_MESSAGE_PAYLOAD_SIZE
    /\ result.tag = "Err"
    /\ state = Idle


----------------------------------------------------------------------------
\* an initialization packet with the command CANCEL was handled on an
\* allocated channel while the processor was Idle
CancelWhileIdle ==
    /\ HandledWhileIdle
    /\ pkt.kind = "Init"
    /\ pkt.channel_identifier \in pre_alloc
    /\ get_command_type(pkt) = OkCommand(CMD_CANCEL)

\* C35: a CANCEL initialization packet on an allocated channel, received while
\* the processor is Idle, is silently ignored: the call returns neither a
\* response nor an error to be written as an ERROR message, and the processor
\* stays Idle.
C35_IdleCancelIgnored ==
    CancelWhileIdle =>
        /\ Returned
        /\ result.tag \notin {"Err", "ResponseReady", "CTAP2Request"}
        /\ state = Idle
        /\ chan_alloc = pre_alloc


----------------------------------------------------------------------------
\* the last call completed an INIT message whose payload is not a nonce of
\* eight bytes
InitOfWrongLength ==
    /\ MessageCompleted
    /\ CompletedMessage.command = OkCommand(CMD_INIT)
    /\ Len(CompletedMessage.payload) # 8

----------------------------------------------------------------------------
\* the ids of the range 1..RangeEnd, its end excluded
RangeIds == {U32(i) : i \in 1..(RangeEnd - 1)}

\* an INIT message with a nonce was handled on the broadcast channel while
\* every id of the range was in use
InitWhenFull ==
    /\ HandledWhileIdle
    /\ pkt.kind = "Init"
    /\ pkt.channel_identifier = BROADCAST_CHANNEL
    /\ get_command_type(pkt) = OkCommand(CMD_INIT)
    /\ pkt.payload_length = 8
    /\ RangeIds \subseteq pre_alloc

\* C37: when every id of the allocatable range is in use, INIT on the
\* broadcast channel fails with the ServerError Other on the broadcast
\* channel, which is written as ERROR with the code 0x7F; the allocated set is
\* as it was and the processor is Idle.
C37_InitFailsWhenFull ==
    InitWhenFull =>
        /\ Returned
        /\ result = Err(OtherError(BROADCAST_CHANNEL))
        /\ ServerErrorMessage(result.err) =
               Message(BROADCAST_CHANNEL, OkCommand(CMD_ERROR), <<127>>)
        /\ chan_alloc = pre_alloc
        /\ state = Idle

\* the INIT that found the range full came after every id had been handed out
C37_Witness ==
    /\ InitWhenFull
    /\ pre_alloc = RangeIds
    /\ result.tag = "Err"


----------------------------------------------------------------------------
ForwardsOne ==
    /\ srv'.requests = Append(srv.requests, srv'.decoded)
    /\ srv'.responses = srv.responses
    /\ srv'.decoded.tag = "Ok"
    /\ srv'.decoded.channel_identifier = pkt'.channel_identifier
    /\ result'.tag = "CTAP2Request"
    /\ state' = Idle

\* the service task takes the oldest request and produces its response, on
\* the channel of the request, or ends with it
TakesOldest ==
    /\ srv.requests # <<>>
    /\ srv'.requests = Tail(srv.requests)
    /\ LET req == Head(srv.requests)
           data == handle_command(req.command)
       IN  IF data = "Panic"
           THEN srv'.responses = srv.responses /\ srv'.service = "terminated"
           ELSE /\ srv'.responses =
                       Append(srv.responses,
                              [data |-> data, channel_identifier |-> req.channel_identifier])
                /\ srv'.service = srv.service

----------------------------------------------------------------------------
\* the last report completed a CBOR message that holds the MakeCredential
\* command byte followed by a CBOR map
MakeCredentialRequested ==
    /\ srv.last = "report"
    /\ result.tag = "CTAP2Request"
    /\ Len(result.message.payload) >= 2
    /\ result.message.payload[1] = CTAP_MAKE_CREDENTIAL
    /\ result.message.payload[2] \div 32 = 5

\* C39: a MakeCredential request is decoded successfully, into a request on
\* the channel of its message that is forwarded to the service, and neither
\* the loop nor the service ends by it.
C39_MakeCredentialDecoded ==
    MakeCredentialRequested =>
        /\ srv.decoded = TryFrom("Ok", "MakeCredential",
                                 result.message.channel_identifier, NoAuthenticatorError)
        /\ srv.stop # "panicked"
        /\ handle_command(srv.decoded.command) # "Panic"


----------------------------------------------------------------------------
\* the channel of the packet of the last decode_packet call
MuxChannel == mux.last.channel_identifier

\* C40: MessageDecoder reassembles the messages of different channels
\* independently: whatever the order in which the packets of several channels
\* arrive, the result of every packet of a channel is the result it has when
\* the packets of that channel arrive alone, and so is the state kept for the
\* channel; an initialization packet on a channel with an unfinished message
\* is answered UnexpectedInit and a continuation packet on a channel with
\* none UnexpectedCont, and no call changes what is kept for another channel.
C40_ChannelsIndependent ==
    /\ \A c \in MuxChans :
           /\ mux.out[c] = mux.alone[c]
           /\ (c \in DOMAIN mux.chan_packets) <=> (c \in DOMAIN mux.solo[c])
           /\ c \in DOMAIN mux.chan_packets => mux.chan_packets[c] = mux.solo[c][c]
    /\ (mux.last.kind = "Init" /\ MuxChannel \in DOMAIN mux.pre) =>
           /\ mux.answer = Answer("Err", NoMessage,
                                  UnexpectedInit(mux.pre[MuxChannel].next_seq_num,
                                                 MuxChannel))
           /\ mux.chan_packets = mux.pre
    /\ (mux.last.kind = "Cont" /\ MuxChannel \notin DOMAIN mux.pre) =>
           /\ mux.answer = Answer("Err", NoMessage, UnexpectedCont(MuxChannel))
           /\ mux.chan_packets = mux.pre
    /\ mux.last.kind # "None" =>
           \A c \in DOMAIN mux.pre \ {MuxChannel} :
               /\ c \in DOMAIN mux.chan_packets
               /\ mux.chan_packets[c] = mux.pre[c]

\* the last continuation packet of a message arrived while the message of
\* another channel was unfinished, after an initialization packet had been
\* refused on that channel
C40_Witness ==
    /\ mux.last.kind = "Cont"
    /\ mux.answer.tag = "Some"
    /\ Len(mux.answer.message.payload) = INIT_PACKET_PAYLOAD_SIZE + 1
    /\ \E c \in DOMAIN mux.chan_packets \ {MuxChannel} :
           /\ Len(mux.out[c]) = 2
           /\ mux.out[c][2].tag = "Err"
           /\ mux.out[c][2].err.kind = "UnexpectedInit"

====
